---- MODULE Spec2Model ----
(***************************************************************************)
(* Verification model of the post-inference analytics of geo-shift-spy:    *)
(*   - DisasterAnalyzer   (services/disaster_analyzer.py): disaster-type   *)
(*     resolution, damage zones, severities, overall assessment,           *)
(*     evacuation-priority and relief-access rasters;                      *)
(*   - GeospatialProcessor (services/geospatial_processor.py): clustering  *)
(*     of detections, pixel-to-geo transform, GeoJSON and KML export;      *)
(*   - MultiClassAnalyzer (services/multiclass_analyzer.py): change map,   *)
(*     change regions, their classification, severity and statistics;      *)
(*   - BatchAnalyzer (scripts/batch_analysis.py): the concurrent           *)
(*     processing of the image pairs of a dataset.                         *)
(* Each component has its own specification (SpecFlood, SpecRaster,        *)
(* SpecCluster, SpecExport, SpecMulti, SpecBatch, ...) over the shared     *)
(* variables; a specification leaves the variables of the other            *)
(* components at their idle values.                                        *)
(* Areas and squared distances are modelled by exact integer arithmetic,   *)
(* geographic coordinates and class fractions by binary floating point of  *)
(* Precision bits.                                                         *)
(***************************************************************************)
EXTENDS Integers, Sequences, FiniteSets, TLC

VARIABLES
    \* ---- DisasterAnalyzer._detect_flood_zones ----
    scene,                  \* the pre/post image pair, as solid blocks on an unchanged background
    pixel_to_meter_ratio,   \* self.pixel_to_meter_ratio
    flood_zones,            \* the returned list of DamageZone
    flood_pc,               \* "start" | "done"
    disaster_type,          \* the DisasterType handed to _detect_damage_zones
    \* ---- DisasterAnalyzer._generate_*_map ----
    damage_zones,           \* the zone list handed to both raster generators
    priority_map,           \* evacuation priority raster
    access_map,             \* relief access raster
    evac_i,                 \* number of zones already overlaid on priority_map
    access_i,               \* number of zones already overlaid on access_map
    \* ---- GeospatialProcessor.cluster_nearby_changes ----
    change_detections,      \* the detection list
    max_distance_meters,    \* argument
    ground_sample_distance, \* metres per pixel of the imagery (the caller's world, not an argument)
    run1,                   \* result of one call
    run2,                   \* result of a second call on the same list (another process)
    \* ---- GeospatialProcessor.convert_to_geojson / convert_to_kml ----
    export_detections,      \* the detection list handed to the exporters
    image_shape,            \* <<height, width>>
    geo_bounds,             \* [north, south, east, west], floats
    geojson,                \* the returned FeatureCollection (status "none" before the call)
    kml,                    \* the returned Document (status "none" before the call)
    \* ---- GeospatialProcessor._create_pixel_to_geo_transformer ----
    pixel,                  \* <<pixel_x, pixel_y>> handed to the transformer
    geo,                    \* the returned (latitude, longitude) (status "none" before the call)
    \* ---- MultiClassAnalyzer.analyze_multiclass_changes ----
    before_segmentation,    \* label grid, a sequence of rows
    after_segmentation,     \* label grid, a sequence of rows
    confidence_scores,      \* <<>> for None, else a grid of confidences in hundredths
    pixel_to_hectare_ratio, \* self.pixel_to_hectare_ratio, in hundredths of a hectare per pixel
    analysis,               \* the returned MultiClassAnalysisResult, or the raised error
    \* ---- DisasterAnalyzer._assess_overall_damage ----
    overall_assessment,     \* the returned assessment, or the raised error (status "none" before the call)
    \* ---- one call of a function without state ----
    fn_args,                \* the arguments of the call, a record
    fn_result,              \* the returned value (status "none" before the call)
    \* ---- BatchAnalyzer.process_dataset ----
    tasks,                  \* per pair: position of its process_pair task, its result, its attempts
    semaphore,              \* value of asyncio.Semaphore(self.max_concurrent_requests)
    batch                   \* the returned dict (status "none" before the return)

floodVars   == <<scene, pixel_to_meter_ratio, flood_zones, flood_pc, disaster_type>>
rasterVars  == <<damage_zones, priority_map, access_map, evac_i, access_i>>
clusterVars == <<change_detections, max_distance_meters, ground_sample_distance, run1, run2>>
exportVars  == <<export_detections, image_shape, geo_bounds, geojson, kml>>
transformVars == <<pixel, geo>>
multiVars   == <<before_segmentation, after_segmentation, confidence_scores,
                 pixel_to_hectare_ratio, analysis>>
assessVars  == <<overall_assessment>>
callVars    == <<fn_args, fn_result>>
batchVars   == <<tasks, semaphore, batch>>
vars        == <<floodVars, rasterVars, clusterVars, exportVars, transformVars, multiVars,
                 assessVars, callVars, batchVars>>

(***************************************************************************)
(* Generic helpers                                                         *)
(***************************************************************************)
Abs(n) == IF n < 0 THEN -n ELSE n

Max2(a, b) == IF a >= b THEN a ELSE b

Range(s) == {s[i] : i \in DOMAIN s}

\* All sequences over S of length 0..n
SeqsUpTo(S, n) == UNION {[1..k -> S] : k \in 0..n}

RECURSIVE SumSeq(_)
SumSeq(s) == IF s = <<>> THEN 0 ELSE Head(s) + SumSeq(Tail(s))

\* Value of a result variable before the call that sets it
NotRun == [status |-> "none"]

(***************************************************************************)
(* DisasterAnalyzer: flood zones                                           *)
(***************************************************************************)
\* Bound: number of solid blocks in a scene.
MaxBlocks == 2

\* RGB colours of the test imagery: <<red, green, blue>>.
Land     == <<120, 100, 60>>
Water    == <<30, 60, 180>>
DimBlue  == <<50, 50, 90>>    \* blue > red + 20 but blue <= 100: not water

BlockWidths  == {11, 200, 201}
BlockHeights == {1, 11, 200, 201}
Ratios       == {1, 2}

\* Block k sits in its own slot, so blocks never touch: the background between
\* them is identical in both images.
SlotX(k) == 10 + (k - 1) * 300
SlotY(k) == 10

Blocks == [w : BlockWidths, h : BlockHeights, pre : {Land, Water}, post : {Water, DimBlue}]

\* detect_water: (blue > red + 20) & (blue > 100)
detect_water(rgb) == IF rgb[3] > rgb[1] + 20 /\ rgb[3] > 100 THEN 1 ELSE 0

\* flood_mask = (post_water > pre_water) on the pixels of block b
flood_mask(b) == IF detect_water(b.post) > detect_water(b.pre) THEN 1 ELSE 0

\* cv2.findContours(RETR_EXTERNAL, CHAIN_APPROX_SIMPLE) of a solid w x h
\* rectangle of mask pixels at (x, y): the corner pixels, which lie on the
\* centres of the border pixels.
findContour(x, y, w, h) ==
    IF w = 1 /\ h = 1 THEN << <<x, y>> >>
    ELSE IF w = 1 THEN << <<x, y>>, <<x, y + h - 1>> >>
    ELSE IF h = 1 THEN << <<x, y>>, <<x + w - 1, y>> >>
    ELSE << <<x, y>>, <<x, y + h - 1>>, <<x + w - 1, y + h - 1>>, <<x + w - 1, y>> >>

\* Twice the signed area, by the shoelace (Green) formula cv2.contourArea uses.
RECURSIVE Shoelace(_, _)
Shoelace(c, i) ==
    IF i > Len(c) THEN 0
    ELSE LET p == c[i]
             q == c[IF i = Len(c) THEN 1 ELSE i + 1]
         IN  (p[1] * q[2] - q[1] * p[2]) + Shoelace(c, i + 1)

\* cv2.contourArea(contour); the doubled area of a rectangle contour is even.
contourArea(c) == Abs(Shoelace(c, 1)) \div 2

\* cv2.boundingRect(contour): inclusive of both border pixels
boundingRect(c) ==
    LET xs == {c[i][1] : i \in DOMAIN c}
        ys == {c[i][2] : i \in DOMAIN c}
        x0 == CHOOSE v \in xs : \A u \in xs : v <= u
        x1 == CHOOSE v \in xs : \A u \in xs : v >= u
        y0 == CHOOSE v \in ys : \A u \in ys : v <= u
        y1 == CHOOSE v \in ys : \A u \in ys : v >= u
    IN  <<x0, y0, x1 - x0 + 1, y1 - y0 + 1>>

estimate_flood_severity_mut(area_sq_meters) ==
    LET score == IF area_sq_meters > 10000 THEN 3
                 ELSE IF area_sq_meters > 1000 THEN 2
                 ELSE IF area_sq_meters > 0 THEN 1 ELSE 0
    IN  IF score >= 3 THEN "catastrophic"
        ELSE IF score >= 2 THEN "severe"
        ELSE IF score >= 1 THEN "moderate"
        ELSE "minor"

\* _estimate_flood_severity: the score is fed by the area alone
estimate_flood_severity(area_sq_meters) ==
    LET score == IF area_sq_meters > 10000 THEN 2
                 ELSE IF area_sq_meters > 1000 THEN 1
                 ELSE 0
    IN  IF score >= 3 THEN "catastrophic"
        ELSE IF score >= 2 THEN "severe"
        ELSE IF score >= 1 THEN "moderate"
        ELSE "minor"

\* _count_affected_structures on a region of uniform colour: Canny finds no
\* edge in it, so no contour is counted.
count_affected_structures(b) == 0

\* The DamageZone built for one contour (lines 264-290) as a one-element list,
\* or the empty list when the contour is skipped.
FloodZoneOf(contour, ratio, b) ==
    LET area_pixels    == contourArea(contour)
        area_sq_meters == area_pixels * ratio
    IN  IF area_sq_meters < 100 THEN <<>>
        ELSE <<[zone_type          |-> "flooded",
              severity            |-> estimate_flood_severity(area_sq_meters),
              bbox                |-> boundingRect(contour),
              area_sq_meters      |-> area_sq_meters,
              confidence          |-> 80,     \* 0.8, in hundredths
              affected_structures |-> count_affected_structures(b),
              polygon_coords      |-> contour]>>

\* Contours of the flood mask, in the order findContours lists them (the
\* component found last by the raster scan comes first).
RECURSIVE FloodContours(_, _)
FloodContours(sc, k) ==
    IF k = 0 THEN <<>>
    ELSE LET b == sc[k]
         IN  IF flood_mask(b) = 1
             THEN <<[contour |-> findContour(SlotX(k), SlotY(k), b.w, b.h), block |-> b]>>
                  \o FloodContours(sc, k - 1)
             ELSE FloodContours(sc, k - 1)

RECURSIVE FloodZonesFrom(_, _)
FloodZonesFrom(cs, ratio) ==
    IF cs = <<>> THEN <<>>
    ELSE FloodZoneOf(Head(cs).contour, ratio, Head(cs).block)
         \o FloodZonesFrom(Tail(cs), ratio)

\* _detect_flood_zones(pre_img, post_img)
detect_flood_zones(sc, ratio) == FloodZonesFrom(FloodContours(sc, Len(sc)), ratio)

InitFloodVars ==
    /\ scene \in SeqsUpTo(Blocks, MaxBlocks)
    /\ pixel_to_meter_ratio \in Ratios
    /\ flood_zones = <<>>
    /\ flood_pc = "start"
    /\ disaster_type = "flood"

IdleFloodVars ==
    /\ scene = <<>>
    /\ pixel_to_meter_ratio = 1
    /\ flood_zones = <<>>
    /\ flood_pc = "start"
    /\ disaster_type = "flood"

DetectFloodZones ==
    /\ flood_pc = "start"
    /\ flood_zones' = detect_flood_zones(scene, pixel_to_meter_ratio)
    /\ flood_pc' = "done"
    /\ UNCHANGED <<scene, pixel_to_meter_ratio, disaster_type, rasterVars, clusterVars,
                   exportVars, transformVars, multiVars,
                   assessVars, callVars, batchVars>>

(***************************************************************************)
(* DisasterAnalyzer: burn, collapse and generic zones, and the dispatch    *)
(***************************************************************************)
Vegetation == <<60, 160, 60>>
Burnt      == <<90, 50, 30>>
Rubble     == <<110, 105, 100>>

\* detect_burns (lines 302-314): darkened by more than 30 and red above 40 %
burn_mask(b) ==
    LET pre_sum  == b.pre[1] + b.pre[2] + b.pre[3]
        post_sum == b.post[1] + b.post[2] + b.post[3]
    IN  IF pre_sum - post_sum > 90 /\ 10 * b.post[1] > 4 * post_sum THEN 1 ELSE 0

\* detect_structural_changes (lines 352-368) compares Canny edge maps, which
\* the colours of a block do not determine: whether the edges of a block were
\* lost is a field of the block.
collapse_mask(b) == IF b.edge_loss THEN 1 ELSE 0

\* cv2.cvtColor(RGB2GRAY) on 8-bit pixels
RGB2GRAY(rgb) == (rgb[1] * 4899 + rgb[2] * 9617 + rgb[3] * 1868 + 8192) \div 16384

\* lines 410-415: absdiff, grey, threshold above 50
generic_mask(b) ==
    IF RGB2GRAY(<<Abs(b.pre[1] - b.post[1]), Abs(b.pre[2] - b.post[2]),
                  Abs(b.pre[3] - b.post[3])>>) > 50
    THEN 1 ELSE 0

\* vegetation_loss = (pre_green - post_green) / pre_green (line 466) on a
\* block of uniform colour, as a fraction; numpy divides by a zero pre_green
\* with a warning and yields nan (0 / 0) or -inf
vegetation_loss(b) ==
    LET pre_green  == b.pre[2]
        post_green == b.post[2]
    IN  IF pre_green # 0
        THEN [status |-> "ok", num |-> pre_green - post_green, den |-> pre_green]
        ELSE IF post_green = 0 THEN [status |-> "nan"] ELSE [status |-> "-inf"]

\* _estimate_burn_severity (lines 460-474); nan and -inf pass no comparison
estimate_burn_severity(b) ==
    LET loss == vegetation_loss(b)
    IN  IF loss.status # "ok" THEN "minor"
        ELSE IF 10 * loss.num > 8 * loss.den THEN "catastrophic"
        ELSE IF 10 * loss.num > 6 * loss.den THEN "severe"
        ELSE IF 10 * loss.num > 4 * loss.den THEN "moderate"
        ELSE "minor"

\* _estimate_collapse_severity (lines 476-485)
estimate_collapse_severity(area_sq_meters) ==
    IF area_sq_meters > 5000 THEN "catastrophic"
    ELSE IF area_sq_meters > 1000 THEN "severe"
    ELSE IF area_sq_meters > 200 THEN "moderate"
    ELSE "minor"

\* Contours of a mask, in the order findContours lists them
RECURSIVE MaskContours(_, _, _)
MaskContours(mask(_), sc, k) ==
    IF k = 0 THEN <<>>
    ELSE LET b == sc[k]
         IN  IF mask(b) = 1
             THEN <<[contour |-> findContour(SlotX(k), SlotY(k), b.w, b.h), block |-> b]>>
                  \o MaskContours(mask, sc, k - 1)
             ELSE MaskContours(mask, sc, k - 1)

\* The DamageZone of one contour of the burn mask (lines 319-343)
BurnZoneOf(contour, ratio, b) ==
    LET area_sq_meters == contourArea(contour) * ratio
    IN  IF area_sq_meters < 500 THEN <<>>
        ELSE <<[zone_type          |-> "burned",
                severity            |-> estimate_burn_severity(b),
                bbox                |-> boundingRect(contour),
                area_sq_meters      |-> area_sq_meters,
                confidence          |-> 75,
                affected_structures |-> 0,
                polygon_coords      |-> contour]>>

\* The DamageZone of one contour of the edge-loss mask (lines 375-396)
CollapseZoneOf(contour, ratio, b) ==
    LET area_sq_meters == contourArea(contour) * ratio
    IN  IF area_sq_meters < 50 THEN <<>>
        ELSE <<[zone_type          |-> "collapsed",
                severity            |-> estimate_collapse_severity(area_sq_meters),
                bbox                |-> boundingRect(contour),
                area_sq_meters      |-> area_sq_meters,
                confidence          |-> 70,
                affected_structures |-> 1,
                polygon_coords      |-> contour]>>

\* The DamageZone of one contour of the difference mask (lines 420-437)
GenericZoneOf(contour, ratio, b) ==
    LET area_sq_meters == contourArea(contour) * ratio
    IN  IF area_sq_meters < 100 THEN <<>>
        ELSE <<[zone_type          |-> "debris",
                severity            |-> "moderate",
                bbox                |-> boundingRect(contour),
                area_sq_meters      |-> area_sq_meters,
                confidence          |-> 60,
                affected_structures |-> 0,
                polygon_coords      |-> contour]>>

RECURSIVE ZonesFrom(_, _, _)
ZonesFrom(ZoneOf_(_, _, _), cs, ratio) ==
    IF cs = <<>> THEN <<>>
    ELSE ZoneOf_(Head(cs).contour, ratio, Head(cs).block)
         \o ZonesFrom(ZoneOf_, Tail(cs), ratio)

\* _detect_burn_zones (lines 297-345)
detect_burn_zones(sc, ratio) ==
    ZonesFrom(BurnZoneOf, MaskContours(burn_mask, sc, Len(sc)), ratio)

\* _detect_collapse_zones (lines 347-398)
detect_collapse_zones(sc, ratio) ==
    ZonesFrom(CollapseZoneOf, MaskContours(collapse_mask, sc, Len(sc)), ratio)

\* _detect_generic_damage_zones (lines 400-437)
detect_generic_damage_zones(sc, ratio) ==
    ZonesFrom(GenericZoneOf, MaskContours(generic_mask, sc, Len(sc)), ratio)

detect_damage_zones_mut(sc, ratio, type) ==
    IF type \in {"flood", "hurricane"} THEN detect_flood_zones(sc, ratio)
    ELSE IF type = "fire" THEN detect_burn_zones(sc, ratio)
    ELSE IF type = "earthquake" THEN detect_collapse_zones(sc, ratio)
    ELSE detect_generic_damage_zones(sc, ratio)

\* _detect_damage_zones (lines 219-238)
detect_damage_zones(sc, ratio, type) ==
    IF type = "flood" THEN detect_flood_zones(sc, ratio)
    ELSE IF type = "fire" THEN detect_burn_zones(sc, ratio)
    ELSE IF type = "earthquake" THEN detect_collapse_zones(sc, ratio)
    ELSE detect_generic_damage_zones(sc, ratio)

DisasterTypes == {"flood", "fire", "earthquake", "hurricane", "landslide", "tornado", "unknown"}

\* Blocks 11 pixels wide whose contours enclose 40, 50, 100 and 500 pixels
DamageBlocks ==
    {[w |-> 11, h |-> h, pre |-> c[1], post |-> c[2], edge_loss |-> c[3]] :
        h \in {5, 6, 11, 51},
        c \in {<<Land, Water, FALSE>>, <<Vegetation, Burnt, FALSE>>, <<Land, Rubble, TRUE>>}}

InitDamageVars ==
    /\ scene \in SeqsUpTo(DamageBlocks, MaxBlocks)
    /\ pixel_to_meter_ratio \in Ratios
    /\ disaster_type \in DisasterTypes
    /\ flood_zones = <<>>
    /\ flood_pc = "start"

\* damage_zones = await self._detect_damage_zones(pre, post, disaster_type)
DetectDamageZones ==
    /\ flood_pc = "start"
    /\ flood_zones' = detect_damage_zones(scene, pixel_to_meter_ratio, disaster_type)
    /\ flood_pc' = "done"
    /\ UNCHANGED <<scene, pixel_to_meter_ratio, disaster_type, rasterVars, clusterVars,
                   exportVars, transformVars, multiVars,
                   assessVars, callVars, batchVars>>

(***************************************************************************)
(* DisasterAnalyzer: evacuation-priority and relief-access rasters         *)
(***************************************************************************)
\* Bounds: raster shape and length of the zone list.
ImgH == 3
ImgW == 3
MaxZones == 2

Pixels == (0..(ImgW - 1)) \X (0..(ImgH - 1))    \* <<x, y>>

ZoneBoxes == {<<0, 0, 2, 2>>, <<1, 1, 2, 2>>}

\* A zone as the raster generators read it. polygon_coords is <<>> when the
\* zone has none (None or an empty list: both are falsy), else the contour of
\* the zone's solid rectangle, as the finders produce it.
ZoneOf(box, sev, type, withPolygon) ==
    [zone_type           |-> type,
     severity            |-> sev,
     bbox                |-> box,
     area_sq_meters      |-> 100 * box[3] * box[4],
     confidence          |-> IF type = "flooded" THEN 80 ELSE IF type = "burned" THEN 75 ELSE 60,
     affected_structures |-> IF type = "flooded" THEN 1 ELSE 0,
     polygon_coords      |-> IF withPolygon
                             THEN findContour(box[1], box[2], box[3], box[4])
                             ELSE <<>>]

RasterZones ==
    {ZoneOf(box, sev, type, wp) :
        box \in ZoneBoxes,
        sev \in {"catastrophic", "severe", "moderate", "minor"},
        type \in {"flooded", "debris", "burned"},
        wp \in BOOLEAN}

\* lines 586-593
priority_value(zone) ==
    IF zone.severity = "catastrophic" THEN 255
    ELSE IF zone.severity = "severe" THEN 200
    ELSE IF zone.severity = "moderate" THEN 150
    ELSE 100

\* lines 612-617
difficulty(zone) ==
    IF zone.zone_type \in {"flooded", "collapsed"} THEN 255
    ELSE IF zone.zone_type = "debris" THEN 200
    ELSE 150

\* Pixels of the slice [y:y+h, x:x+w] (numpy clips it to the array).
SlicePixels(box) ==
    {p \in Pixels : /\ box[1] <= p[1] /\ p[1] < box[1] + box[3]
                    /\ box[2] <= p[2] /\ p[2] < box[2] + box[4]}

\* Pixels cv2.fillPoly paints for an axis-aligned rectangular contour: the
\* interior and the border, clipped to the raster.
FillPolyPixels(points) ==
    LET r == boundingRect(points)
    IN  SlicePixels(r)

\* raster value after overlaying one zone with fill value v (lines 596-600,
\* 620-624): fillPoly assigns v, the bounding-box branch takes np.maximum.
OverlayZone(raster, zone, v) ==
    IF zone.polygon_coords # <<>>
    THEN [p \in Pixels |-> IF p \in FillPolyPixels(zone.polygon_coords) THEN v ELSE raster[p]]
    ELSE [p \in Pixels |-> IF p \in SlicePixels(zone.bbox) THEN Max2(raster[p], v) ELSE raster[p]]

InitRasterVars ==
    /\ damage_zones \in SeqsUpTo(RasterZones, MaxZones)
    /\ priority_map = [p \in Pixels |-> 0]       \* np.zeros
    /\ access_map = [p \in Pixels |-> 100]       \* np.ones * 100
    /\ evac_i = 0
    /\ access_i = 0

\* One iteration of the loop of _generate_evacuation_priority_map
EvacStep ==
    /\ evac_i < Len(damage_zones)
    /\ priority_map' = OverlayZone(priority_map, damage_zones[evac_i + 1],
                                   priority_value(damage_zones[evac_i + 1]))
    /\ evac_i' = evac_i + 1
    /\ UNCHANGED <<damage_zones, access_map, access_i, floodVars, clusterVars, exportVars, transformVars, multiVars,
                   assessVars, callVars, batchVars>>

\* One iteration of the loop of _generate_relief_access_map, which
\* analyze_disaster_impact calls after the evacuation map is complete.
AccessStep ==
    /\ evac_i = Len(damage_zones)
    /\ access_i < Len(damage_zones)
    /\ access_map' = OverlayZone(access_map, damage_zones[access_i + 1],
                                 difficulty(damage_zones[access_i + 1]))
    /\ access_i' = access_i + 1
    /\ UNCHANGED <<damage_zones, priority_map, evac_i, floodVars, clusterVars, exportVars, transformVars, multiVars,
                   assessVars, callVars, batchVars>>

(***************************************************************************)
(* Detections as GeospatialProcessor reads them                            *)
(***************************************************************************)
\* The processor takes an untyped list and reads attributes by name. Three
\* kinds of object are modelled:
\*   "ChangeDetection": multiclass_analyzer.ChangeDetection (change_type,
\*       confidence, bbox, area_hectares, severity; no polygon_coords);
\*   "DamageZone": disaster_analyzer.DamageZone (zone_type, severity, bbox,
\*       area_sq_meters, confidence, affected_structures, polygon_coords; no
\*       change_type, no area_hectares);
\*   "Record": an object carrying every attribute the processor reads, with a
\*       plain-string change_type (the str() branch of lines 143, 227, 704,
\*       711) such as the "flooded" of the KML style table.
AttrsOf(kind) ==
    IF kind = "ChangeDetection"
    THEN {"change_type", "confidence", "bbox", "area_hectares", "severity"}
    ELSE IF kind = "DamageZone"
    THEN {"zone_type", "severity", "bbox", "area_sq_meters", "confidence",
          "affected_structures", "polygon_coords"}
    ELSE {"change_type", "confidence", "bbox", "area_hectares", "severity",
          "polygon_coords"}

hasattr(d, a) == a \in AttrsOf(d.kind)

\* type is change_type (or zone_type for a DamageZone), area is area_hectares
\* (or area_sq_meters), confidence is in hundredths.
Detection(kind, type, sev, box, poly, area, conf) ==
    [kind |-> kind, type |-> type, severity |-> sev, bbox |-> box,
     polygon_coords |-> poly, area |-> area, confidence |-> conf]

(***************************************************************************)
(* DisasterAnalyzer: overall damage assessment                             *)
(***************************************************************************)
\* Zones of a list that satisfy a test, in list order
RECURSIVE ZonesWhere(_, _)
ZonesWhere(Test(_), zones) ==
    IF zones = <<>> THEN <<>>
    ELSE (IF Test(Head(zones)) THEN <<Head(zones)>> ELSE <<>>) \o ZonesWhere(Test, Tail(zones))

RECURSIVE SumOf(_, _)
SumOf(Field(_), zones) ==
    IF zones = <<>> THEN 0 ELSE Field(Head(zones)) + SumOf(Field, Tail(zones))

\* _calculate_emergency_priority (lines 555-576)
calculate_emergency_priority(zones) ==
    LET priority_score ==
            SumOf(LAMBDA z : IF z.severity = "catastrophic" THEN 4
                             ELSE IF z.severity = "severe" THEN 3
                             ELSE IF z.severity = "moderate" THEN 2
                             ELSE 1,
                  zones)
    IN  IF priority_score >= 10 THEN "critical"
        ELSE IF priority_score >= 6 THEN "high"
        ELSE IF priority_score >= 3 THEN "medium"
        ELSE "low"

\* Python's x / y on floats: ZeroDivisionError when y is zero, else the
\* quotient, kept as a fraction
true_divide(x, y) ==
    IF y = 0 THEN [status |-> "ZeroDivisionError"]
    ELSE [status |-> "ok", num |-> x, den |-> y]

\* _assess_overall_damage(damage_zones, image_shape) (lines 511-553); areas in
\* square metres, damage_percentage as the fraction num / den
assess_overall_damage(zones, shape, ratio) ==
    LET total_area == shape[1] * shape[2] * ratio
        types == {zones[i].zone_type : i \in DOMAIN zones}
        of_type(t) == ZonesWhere(LAMBDA z : z.zone_type = t, zones)
        damage_by_type ==
            [t \in types |->
                [count |-> Len(of_type(t)),
                 total_area_sq_meters |-> SumOf(LAMBDA z : z.area_sq_meters, of_type(t)),
                 avg_confidence |-> [num |-> SumOf(LAMBDA z : z.confidence, of_type(t)),
                                     den |-> 100 * Len(of_type(t))]]]
        damage_by_severity ==
            [sev \in {"minor", "moderate", "severe", "catastrophic"} |->
                SumOf(LAMBDA z : z.area_sq_meters,
                      ZonesWhere(LAMBDA z : z.severity = sev, zones))]
        total_damaged_area == SumOf(LAMBDA z : z.area_sq_meters, zones)
        quotient == true_divide(total_damaged_area, total_area)
    IN  IF quotient.status # "ok" THEN [status |-> quotient.status]
        ELSE [status |-> "ok",
              total_damage_zones |-> Len(zones),
              total_damaged_area_sq_meters |-> total_damaged_area,
              damage_percentage |-> [num |-> 100 * quotient.num, den |-> quotient.den],
              damage_by_type |-> damage_by_type,
              damage_by_severity |-> damage_by_severity,
              structures_affected |-> SumOf(LAMBDA z : z.affected_structures, zones),
              emergency_priority |-> calculate_emergency_priority(zones)]

\* overall_assessment = await self._assess_overall_damage(damage_zones, pre_array.shape)
AssessOverallDamage ==
    /\ overall_assessment.status = "none"
    /\ overall_assessment' = assess_overall_damage(damage_zones, <<ImgH, ImgW>>,
                                                   pixel_to_meter_ratio)
    /\ UNCHANGED <<floodVars, rasterVars, clusterVars, exportVars, transformVars, multiVars,
                   callVars, batchVars>>

(***************************************************************************)
(* GeospatialProcessor.cluster_nearby_changes                              *)
(***************************************************************************)
\* Bound: length of the detection list.
MaxDetections == 3

ClusterBoxes == {<<0, 0, 10, 10>>, <<60, 0, 10, 10>>, <<120, 0, 10, 10>>}

ClusterInputs ==
    {Detection("ChangeDetection", "deforestation", "low", b, <<>>, 1, 90) : b \in ClusterBoxes}
    \cup {Detection("ChangeDetection", "urbanization", "critical", b, <<>>, 2, 50) : b \in ClusterBoxes}
    \cup {Detection("Record", "flooded", "minor", b, <<>>, 4, 80) : b \in ClusterBoxes}
    \cup {Detection("Record", "flooded", "catastrophic", b, <<>>, 8, 80) : b \in ClusterBoxes}
    \cup {Detection("DamageZone", "flooded", "severe", b, <<>>, 16, 80) : b \in ClusterBoxes}

\* The change-type strings of a detection list
TypeNames(dets) == {dets[i].type : i \in DOMAIN dets}

\* Iteration orders of a set of these strings. The order in which a Python set
\* of str iterates depends on the process's string-hash seed.
HashOrders(dets) ==
    {o \in [1..Cardinality(TypeNames(dets)) -> TypeNames(dets)] : Range(o) = TypeNames(dets)}

\* Twice the centre of a bounding box: center = x + w / 2 (lines 673-675)
center2(box) == <<2 * box[1] + box[3], 2 * box[2] + box[4]>>

Within_mut(d1, d2, max_m) ==
    LET a == center2(d1.bbox)
        b == center2(d2.bbox)
    IN  10000 * ((a[1] - b[1]) * (a[1] - b[1]) + (a[2] - b[2]) * (a[2] - b[2]))
            <= 4 * max_m * max_m

\* Euclidean distance of the centres <= eps, with eps = max_distance_pixels =
\* max_distance_meters / 10 (line 682): 100 * (2 dist)^2 <= 4 * max_m^2.
Within(d1, d2, max_m) ==
    LET a == center2(d1.bbox)
        b == center2(d2.bbox)
    IN  100 * ((a[1] - b[1]) * (a[1] - b[1]) + (a[2] - b[2]) * (a[2] - b[2]))
            <= 4 * max_m * max_m

\* DBSCAN's eps-neighbourhood of point i (it holds i itself)
Neighbors(dets, max_m, i) == {j \in DOMAIN dets : Within(dets[i], dets[j], max_m)}

\* DBSCAN(eps, min_samples=1), line 684
min_samples == 1

IsCore(dets, max_m, i) == Cardinality(Neighbors(dets, max_m, i)) >= min_samples

\* The points density-reachable from the set S
RECURSIVE Expand(_, _, _)
Expand(dets, max_m, S) ==
    LET N == S \cup UNION {Neighbors(dets, max_m, i) : i \in {j \in S : IsCore(dets, max_m, j)}}
    IN  IF N = S THEN S ELSE Expand(dets, max_m, N)

\* clustering.labels_: points are visited in order; an unlabelled core point
\* opens the next cluster, which takes every point reachable from it; the
\* points left at -1 are noise.
RECURSIVE DbscanLabels(_, _, _, _, _)
DbscanLabels(dets, max_m, i, labels, next) ==
    IF i > Len(dets) THEN labels
    ELSE IF labels[i] # -1 \/ ~IsCore(dets, max_m, i)
         THEN DbscanLabels(dets, max_m, i + 1, labels, next)
         ELSE LET comp == Expand(dets, max_m, {i})
              IN  DbscanLabels(dets, max_m, i + 1,
                               [j \in DOMAIN dets |->
                                   IF j \in comp /\ labels[j] = -1 THEN next ELSE labels[j]],
                               next + 1)

labels_(dets, max_m) ==
    DbscanLabels(dets, max_m, 1, [j \in DOMAIN dets |-> -1], 0)

\* Keys of the dict clusters, in insertion order (lines 688-692)
RECURSIVE ClusterKeys(_, _)
ClusterKeys(labels, i) ==
    IF i > Len(labels) THEN <<>>
    ELSE IF \E j \in 1..(i - 1) : labels[j] = labels[i]
         THEN ClusterKeys(labels, i + 1)
         ELSE <<labels[i]>> \o ClusterKeys(labels, i + 1)

\* clusters[label]: the detections with that label, in list order
RECURSIVE Members(_, _, _, _)
Members(dets, labels, label, i) ==
    IF i > Len(dets) THEN <<>>
    ELSE IF labels[i] = label
         THEN <<dets[i]>> \o Members(dets, labels, label, i + 1)
         ELSE Members(dets, labels, label, i + 1)

\* list.count
Count(seq, v) == Cardinality({i \in DOMAIN seq : seq[i] = v})

\* max(set(change_types), key=change_types.count): the first element, in the
\* set's iteration order, whose count is the largest (line 712)
dominant_type(change_types, order) ==
    LET best == CHOOSE n \in {Count(change_types, t) : t \in Range(change_types)} :
                    \A t \in Range(change_types) : Count(change_types, t) <= n
        first == CHOOSE k \in DOMAIN order :
                    /\ Count(change_types, order[k]) = best
                    /\ \A l \in 1..(k - 1) : Count(change_types, order[l]) # best
    IN  order[first]

\* severity_order.index(x) if x in severity_order else 0 (lines 715-716)
severity_key(x) ==
    IF x = "low" THEN 0
    ELSE IF x = "medium" THEN 1
    ELSE IF x = "high" THEN 2
    ELSE IF x = "critical" THEN 3
    ELSE 0

\* max(severities, key=...): the first member whose key is the largest
max_severity(severities) ==
    LET first == CHOOSE k \in DOMAIN severities :
                    /\ \A l \in DOMAIN severities :
                           severity_key(severities[l]) <= severity_key(severities[k])
                    /\ \A l \in 1..(k - 1) :
                           severity_key(severities[l]) < severity_key(severities[k])
    IN  severities[first]

total_area_mut(detections) == SumSeq([i \in 1..(Len(detections) - 1) |-> detections[i].area])

\* sum(d.area_hectares for d in detections), line 718
total_area(detections) == SumSeq([i \in DOMAIN detections |-> detections[i].area])

\* lines 700-708: one group per noise detection
IndividualGroup(detection) ==
    [type                 |-> "individual",
     detections           |-> <<detection>>,
     count                |-> 1,
     dominant_change_type |-> detection.type,
     total_area_hectares  |-> detection.area,
     max_severity         |-> detection.severity,
     avg_confidence       |-> detection.confidence]

\* lines 711-729; avg_confidence in hundredths, rounded down
ClusterGroup(detections, order) ==
    [type                 |-> "cluster",
     detections           |-> detections,
     count                |-> Len(detections),
     dominant_change_type |-> dominant_type([i \in DOMAIN detections |-> detections[i].type], order),
     total_area_hectares  |-> total_area(detections),
     max_severity         |-> max_severity([i \in DOMAIN detections |-> detections[i].severity]),
     avg_confidence       |-> SumSeq([i \in DOMAIN detections |-> detections[i].confidence])
                                  \div Len(detections)]

\* lines 696-729: the groups of the clusters whose keys are keys[k..]
RECURSIVE Summaries(_, _, _, _, _)
Summaries(dets, labels, keys, k, order) ==
    IF k > Len(keys) THEN <<>>
    ELSE LET detections == Members(dets, labels, keys[k], 1)
         IN  (IF keys[k] = -1
              THEN [i \in DOMAIN detections |-> IndividualGroup(detections[i])]
              ELSE <<ClusterGroup(detections, order)>>)
             \o Summaries(dets, labels, keys, k + 1, order)

cluster_nearby_changes_mut(dets, max_m, order) ==
    IF dets = <<>> THEN [status |-> "ValueError", groups |-> <<>>]
    ELSE IF \E i \in DOMAIN dets :
                ~hasattr(dets[i], "change_type") \/ ~hasattr(dets[i], "area_hectares")
         THEN [status |-> "AttributeError", groups |-> <<>>]
         ELSE LET labels == labels_(dets, max_m)
              IN  [status |-> "ok",
                   groups |-> Summaries(dets, labels, ClusterKeys(labels, 1), 1, order)]

\* cluster_nearby_changes(change_detections, max_distance_meters) in a process
\* whose sets of str iterate in the given order. Reading change_type or
\* area_hectares of an object that has none raises AttributeError, which the
\* function does not catch.
cluster_nearby_changes(dets, max_m, order) ==
    IF dets = <<>> THEN [status |-> "ok", groups |-> <<>>]
    ELSE IF \E i \in DOMAIN dets :
                ~hasattr(dets[i], "change_type") \/ ~hasattr(dets[i], "area_hectares")
         THEN [status |-> "AttributeError", groups |-> <<>>]
         ELSE LET labels == labels_(dets, max_m)
              IN  [status |-> "ok",
                   groups |-> Summaries(dets, labels, ClusterKeys(labels, 1), 1, order)]

InitClusterVars ==
    /\ change_detections \in SeqsUpTo(ClusterInputs, MaxDetections)
    /\ max_distance_meters = 1000        \* the default argument
    /\ ground_sample_distance = 10
    /\ run1 = NotRun
    /\ run2 = NotRun

Cluster1_mut ==
    /\ run1.status = "none"
    /\ \E order \in HashOrders(change_detections) :
           run1' = cluster_nearby_changes(change_detections, max_distance_meters, order)
    /\ change_detections' = [i \in DOMAIN change_detections |->
                                change_detections[Len(change_detections) + 1 - i]]
    /\ UNCHANGED <<max_distance_meters, ground_sample_distance, run2,
                   floodVars, rasterVars, exportVars, transformVars, multiVars,
                   assessVars, callVars, batchVars>>

\* One call of cluster_nearby_changes
Cluster1 ==
    /\ run1.status = "none"
    /\ \E order \in HashOrders(change_detections) :
           run1' = cluster_nearby_changes(change_detections, max_distance_meters, order)
    /\ UNCHANGED <<change_detections, max_distance_meters, ground_sample_distance, run2,
                   floodVars, rasterVars, exportVars, transformVars, multiVars,
                   assessVars, callVars, batchVars>>

\* A second call on the same list, in another process
Cluster2 ==
    /\ run1.status # "none"
    /\ run2.status = "none"
    /\ \E order \in HashOrders(change_detections) :
           run2' = cluster_nearby_changes(change_detections, max_distance_meters, order)
    /\ UNCHANGED <<change_detections, max_distance_meters, ground_sample_distance, run1,
                   floodVars, rasterVars, exportVars, transformVars, multiVars,
                   assessVars, callVars, batchVars>>

(***************************************************************************)
(* Scenario D: a fixed number of detections on two sites                   *)
(***************************************************************************)
\* Bound: the number of detections of scenario D.
ScenarioDCount == 10

\* Distance in pixels between the two sites of a scenario-D list
SiteSpacings == {90, 300}

GroundSampleDistances == {1, 10, 20}

MaxDistances == {500, 1000}

SiteDetection(x) == Detection("ChangeDetection", "urbanization", "medium",
                              <<x, 0, 10, 10>>, <<>>, 1, 90)

InitScenarioDVars ==
    /\ \E s \in SiteSpacings :
           change_detections \in [1..ScenarioDCount -> {SiteDetection(0), SiteDetection(s)}]
    /\ max_distance_meters \in MaxDistances
    /\ ground_sample_distance \in GroundSampleDistances
    /\ run1 = NotRun
    /\ run2 = NotRun

(***************************************************************************)
(* GeospatialProcessor: pixel-to-geo transform, GeoJSON and KML export     *)
(***************************************************************************)
\* Python floats are binary floating point: every operation returns the
\* representable number nearest to the exact result, ties to the even
\* significand. A float is modelled as [m, e], the number m * 2^e with m odd
\* (or m = 0, e = 0), and the significand has Precision bits (53 in a double).
\* Bound: bits of the significand.
Precision == 9

RECURSIVE Pow2(_)
Pow2(k) == IF k = 0 THEN 1 ELSE 2 * Pow2(k - 1)

RECURSIVE Normal(_, _)
Normal(m, e) ==
    IF m = 0 THEN [m |-> 0, e |-> 0]
    ELSE IF m % 2 = 0 THEN Normal(m \div 2, e + 1)
    ELSE [m |-> m, e |-> e]

\* Significands of full width lie in MinSig .. MaxSig - 1
MinSig == Pow2(Precision - 1)
MaxSig == Pow2(Precision)

\* The float nearest to (N / D) * 2^e, for N > 0 and D > 0
RECURSIVE RoundPos(_, _, _)
RoundPos(N, D, e) ==
    IF D = 1 /\ N < MaxSig THEN Normal(N, e)
    ELSE IF N < D * MinSig THEN RoundPos(2 * N, D, e - 1)
    ELSE IF N >= D * MaxSig THEN RoundPos(N, 2 * D, e + 1)
    ELSE LET q  == N \div D
             r  == N % D
             up == 2 * r > D \/ (2 * r = D /\ q % 2 = 1)
         IN  Normal(IF up THEN q + 1 ELSE q, e)

FNeg(a) == [m |-> -a.m, e |-> a.e]

\* The float nearest to (N / D) * 2^e, for D > 0
RoundRat(N, D, e) ==
    IF N = 0 THEN [m |-> 0, e |-> 0]
    ELSE IF N < 0 THEN FNeg(RoundPos(-N, D, e))
    ELSE RoundPos(N, D, e)

MinExp(a, b) == IF a.e <= b.e THEN a.e ELSE b.e

\* The significand of a at exponent e <= a.e
Aligned(a, e) == a.m * Pow2(a.e - e)

FAdd(a, b) == RoundRat(Aligned(a, MinExp(a, b)) + Aligned(b, MinExp(a, b)), 1, MinExp(a, b))
FSub(a, b) == FAdd(a, FNeg(b))
FMul(a, b) == RoundRat(a.m * b.m, 1, a.e + b.e)

IntDiv_mut(x, n) == RoundRat(x, n + 1, 0)

\* int / int
IntDiv(x, n) == RoundRat(x, n, 0)

\* int -> float
Float(x) == RoundRat(x, 1, 0)

FLeq(a, b) == Aligned(a, MinExp(a, b)) <= Aligned(b, MinExp(a, b))
FLess(a, b) == Aligned(a, MinExp(a, b)) < Aligned(b, MinExp(a, b))

\* self.default_bounds (lines 67-72)
default_bounds == [north |-> Float(40), south |-> Float(39),
                   east |-> Float(-73), west |-> Float(-74)]

\* Bounds a few units in the last place wide and high (39.75 .. 40 north,
\* -74 .. -73.5 east at eight bits): neighbouring pixels share one coordinate.
narrow_bounds == [north |-> Float(40), south |-> Normal(159, -2),
                  east |-> Normal(-147, -1), west |-> Float(-74)]

ImageShapes == {<<100, 100>>, <<4, 4>>}       \* <<height, width>>

pixel_to_geo_mut(shape, bounds, pixel_x, pixel_y) ==
    LET height == shape[1]
        width  == shape[2]
        norm_x == IntDiv(pixel_x, width)
        norm_y == IntDiv(pixel_y, height)
        longitude == FAdd(bounds.west, FMul(norm_x, FSub(bounds.east, bounds.west)))
        latitude  == FAdd(bounds.south, FMul(norm_y, FSub(bounds.north, bounds.south)))
    IN  <<latitude, longitude>>

\* pixel_to_geo (lines 300-312). Returns <<latitude, longitude>>.
pixel_to_geo(shape, bounds, pixel_x, pixel_y) ==
    LET height == shape[1]
        width  == shape[2]
        norm_x == IntDiv(pixel_x, width)
        norm_y == FSub(Float(1), IntDiv(pixel_y, height))
        longitude == FAdd(bounds.west, FMul(norm_x, FSub(bounds.east, bounds.west)))
        latitude  == FAdd(bounds.south, FMul(norm_y, FSub(bounds.north, bounds.south)))
    IN  <<latitude, longitude>>

\* [lon, lat] of a pixel (lines 108-109)
LonLat(shape, bounds, pt) ==
    LET g == pixel_to_geo(shape, bounds, pt[1], pt[2])
    IN  <<g[2], g[1]>>

corners_mut(box) ==
    LET x == box[1]
        y == box[2]
        w == box[3]
        h == box[4]
    IN  << <<x, y>>, <<x, y + h>>, <<x + w, y + h>>, <<x + w, y>>, <<x, y>> >>

\* lines 121-128 and 270-271
corners(box) ==
    LET x == box[1]
        y == box[2]
        w == box[3]
        h == box[4]
    IN  << <<x, y>>, <<x + w, y>>, <<x + w, y + h>>, <<x, y + h>>, <<x, y>> >>

close_geojson_ring_mut(geo_coords) == geo_coords

\* lines 111-113: close the ring if its ends differ
close_geojson_ring(geo_coords) ==
    IF geo_coords[1] # geo_coords[Len(geo_coords)]
    THEN Append(geo_coords, geo_coords[1])
    ELSE geo_coords

\* hasattr(detection, 'polygon_coords') and detection.polygon_coords
has_polygon(detection) ==
    hasattr(detection, "polygon_coords") /\ detection.polygon_coords # <<>>

\* The ring of the Polygon geometry (lines 104-138)
geojson_ring(shape, bounds, detection) ==
    IF has_polygon(detection)
    THEN close_geojson_ring([k \in DOMAIN detection.polygon_coords |->
                                LonLat(shape, bounds, detection.polygon_coords[k])])
    ELSE [k \in 1..5 |-> LonLat(shape, bounds, corners(detection.bbox)[k])]

\* The body of the loop of convert_to_geojson for detection i (0-based index
\* i - 1): the feature as a one-element list, or the empty list when reading
\* change_type or area_hectares raises and the except clause skips the
\* detection (lines 164-166).
geojson_feature(shape, bounds, detection, i) ==
    IF ~hasattr(detection, "change_type") \/ ~hasattr(detection, "area_hectares")
    THEN <<>>
    ELSE <<[type       |-> "Feature",
            id         |-> i - 1,
            geometry   |-> [type |-> "Polygon",
                            coordinates |-> <<geojson_ring(shape, bounds, detection)>>],
            properties |-> [id            |-> i - 1,
                            change_type   |-> detection.type,
                            confidence    |-> detection.confidence,
                            severity      |-> detection.severity,
                            area_hectares |-> detection.area,
                            bbox          |-> detection.bbox]]>>

RECURSIVE geojson_features(_, _, _, _)
geojson_features(shape, bounds, dets, i) ==
    IF i > Len(dets) THEN <<>>
    ELSE geojson_feature(shape, bounds, dets[i], i)
         \o geojson_features(shape, bounds, dets, i + 1)

\* convert_to_geojson(change_detections, image_shape, geo_bounds)
convert_to_geojson(dets, shape, bounds) ==
    LET features == geojson_features(shape, bounds, dets, 1)
    IN  [status   |-> "ok",
         type     |-> "FeatureCollection",
         metadata |-> [image_shape |-> shape, bounds |-> bounds,
                       feature_count |-> Len(features)],
         features |-> features]

\* _get_style_id_for_change_type (lines 347-360)
get_style_id_for_change_type(change_type) ==
    IF change_type \in {"deforestation", "urbanization", "water_increase", "water_decrease",
                        "disaster_damage", "burned", "flooded", "collapsed"}
    THEN change_type
    ELSE "default"

\* "lon,lat,0" of a pixel (lines 259-260)
KmlCoord(shape, bounds, pt) ==
    LET g == pixel_to_geo(shape, bounds, pt[1], pt[2])
    IN  <<g[2], g[1], Float(0)>>

\* The coordinate list of the LinearRing (lines 250-283): the polygon is
\* closed when its first and last pixel differ.
kml_ring(shape, bounds, detection) ==
    IF has_polygon(detection)
    THEN LET poly == detection.polygon_coords
             coord_list == [k \in DOMAIN poly |-> KmlCoord(shape, bounds, poly[k])]
         IN  IF poly[1] # poly[Len(poly)]
             THEN Append(coord_list, KmlCoord(shape, bounds, poly[1]))
             ELSE coord_list
    ELSE [k \in 1..5 |-> KmlCoord(shape, bounds, corners(detection.bbox)[k])]

\* The Placemark the loop of convert_to_kml leaves in the Document for
\* detection i. The element and its empty <name> are attached (lines 223-226)
\* before change_type is read: when that raises, the except clause leaves the
\* Placemark without description, styleUrl and Polygon.
kml_placemark(shape, bounds, detection, i) ==
    IF ~hasattr(detection, "change_type") \/ ~hasattr(detection, "area_hectares")
    THEN [index |-> i, name |-> "", styleUrl |-> "", polygon |-> <<>>]
    ELSE [index    |-> i,
          name     |-> detection.type,
          styleUrl |-> get_style_id_for_change_type(detection.type),
          polygon  |-> <<kml_ring(shape, bounds, detection)>>]

\* The ids of the Style elements _add_kml_styles puts in the Document
\* (lines 318-331)
kml_styles ==
    {"deforestation", "urbanization", "water_increase", "water_decrease",
     "disaster_damage", "burned", "flooded", "collapsed", "default"}

\* convert_to_kml(change_detections, image_shape, geo_bounds)
convert_to_kml(dets, shape, bounds) ==
    [status     |-> "ok",
     styles     |-> kml_styles,
     placemarks |-> [i \in DOMAIN dets |-> kml_placemark(shape, bounds, dets[i], i)]]

OpenTriangle   == << <<1, 1>>, <<3, 1>>, <<1, 3>> >>
ClosedTriangle == << <<1, 1>>, <<3, 1>>, <<1, 3>>, <<1, 1>> >>
SinglePoint    == << <<1, 1>> >>

ExportInputs ==
    {Detection("ChangeDetection", "deforestation", "low", <<1, 1, 3, 2>>, <<>>, 1, 90)}
    \cup {Detection("DamageZone", "flooded", "severe", <<0, 0, 2, 2>>,
                    findContour(0, 0, 2, 2), 16, 80)}
    \cup {Detection("Record", "flooded", "catastrophic", <<0, 0, 3, 3>>, poly, 8, 80) :
            poly \in {<<>>, OpenTriangle, ClosedTriangle, SinglePoint}}

InitExportVars ==
    /\ export_detections \in SeqsUpTo(ExportInputs, MaxDetections)
    /\ image_shape \in ImageShapes
    /\ geo_bounds = default_bounds       \* geo_bounds is None (lines 93-94, 201-202)
    /\ geojson = NotRun
    /\ kml = NotRun

ConvertToGeojson ==
    /\ geojson.status = "none"
    /\ geojson' = convert_to_geojson(export_detections, image_shape, geo_bounds)
    /\ UNCHANGED <<export_detections, image_shape, geo_bounds, kml,
                   floodVars, rasterVars, clusterVars, transformVars, multiVars,
                   assessVars, callVars, batchVars>>

ConvertToKml ==
    /\ kml.status = "none"
    /\ kml' = convert_to_kml(export_detections, image_shape, geo_bounds)
    /\ UNCHANGED <<export_detections, image_shape, geo_bounds, geojson,
                   floodVars, rasterVars, clusterVars, transformVars, multiVars,
                   assessVars, callVars, batchVars>>

(***************************************************************************)
(* GeospatialProcessor._create_pixel_to_geo_transformer, called alone      *)
(***************************************************************************)
unit_bounds == [north |-> Float(1), south |-> Float(0),
                east |-> Float(1), west |-> Float(0)]

\* Bounds whose extent needs more bits than the significand has
\* (0.875 .. 82.25 north, -1.25 .. 133.5 east at 9 bits).
uneven_bounds == [north |-> Normal(Pow2(Precision - 1) + 73, -2), south |-> Normal(7, -3),
                  east |-> Normal(Pow2(Precision - 1) + 11, -1), west |-> Normal(-5, -2)]

TransformBounds == {default_bounds, narrow_bounds, unit_bounds, uneven_bounds}

TransformShapes == {<<100, 100>>, <<4, 4>>, <<3, 5>>}

\* In-bounds pixel coordinates along an axis of length n: all of them for a
\* small image, the two ends and every 25th for a large one.
Coords(n) == {k \in 0..n : k <= 4 \/ k >= n - 2 \/ k % 25 = 0}

InitTransformVars ==
    /\ image_shape \in TransformShapes
    /\ geo_bounds \in TransformBounds
    /\ pixel \in Coords(image_shape[2]) \X Coords(image_shape[1])
    /\ geo = NotRun
    /\ export_detections = <<>>
    /\ geojson = NotRun
    /\ kml = NotRun

IdleTransformVars ==
    /\ pixel = <<0, 0>>
    /\ geo = NotRun

\* lat, lon = pixel_to_geo(pixel_x, pixel_y)
PixelToGeo ==
    /\ geo.status = "none"
    /\ geo' = LET g == pixel_to_geo(image_shape, geo_bounds, pixel[1], pixel[2])
              IN  [status |-> "ok", latitude |-> g[1], longitude |-> g[2]]
    /\ UNCHANGED <<pixel, floodVars, rasterVars, clusterVars, exportVars, multiVars,
                   assessVars, callVars, batchVars>>

(***************************************************************************)
(* MultiClassAnalyzer (services/multiclass_analyzer.py)                    *)
(***************************************************************************)
\* A grid is a sequence of rows; a pixel is <<row, column>>, from 1.
shape_of(grid) == <<Len(grid), Len(grid[1])>>

GridPixels(sh) == (1..sh[1]) \X (1..sh[2])

\* LAND_COVER_CLASSES.get(id, "unknown") (lines 61-70, 253-254)
LAND_COVER_CLASSES(id) ==
    CASE id = 0 -> "water"
      [] id = 1 -> "forest"
      [] id = 2 -> "urban"
      [] id = 3 -> "agriculture"
      [] id = 4 -> "barren"
      [] id = 5 -> "grassland"
      [] id = 6 -> "wetland"
      [] id = 7 -> "ice_snow"
      [] OTHER  -> "unknown"

\* CHANGE_RULES (lines 73-89) as <<before, after, change type>>
CHANGE_RULES ==
    {<<"forest", "urban", "urbanization">>,
     <<"forest", "barren", "deforestation">>,
     <<"forest", "agriculture", "deforestation">>,
     <<"urban", "barren", "disaster_damage">>,
     <<"urban", "water", "disaster_damage">>,
     <<"barren", "forest", "reforestation">>,
     <<"barren", "urban", "urbanization">>,
     <<"barren", "water", "water_increase">>,
     <<"water", "barren", "water_decrease">>,
     <<"water", "urban", "urbanization">>,
     <<"agriculture", "urban", "urbanization">>,
     <<"agriculture", "barren", "vegetation_to_barren">>,
     <<"barren", "agriculture", "barren_to_vegetation">>,
     <<"grassland", "urban", "urbanization">>,
     <<"grassland", "barren", "vegetation_to_barren">>}

\* numpy broadcasting of two 2-d shapes
broadcastable(s1, s2) ==
    /\ (s1[1] = s2[1] \/ s1[1] = 1 \/ s2[1] = 1)
    /\ (s1[2] = s2[2] \/ s1[2] = 1 \/ s2[2] = 1)

broadcast_shape(s1, s2) == <<Max2(s1[1], s2[1]), Max2(s1[2], s2[2])>>

\* The element of grid that broadcasting puts at pixel p
at(grid, p) ==
    grid[IF Len(grid) = 1 THEN 1 ELSE p[1]][IF Len(grid[1]) = 1 THEN 1 ELSE p[2]]

\* An elementwise result over the broadcast shape
Elementwise(s, F(_)) == [r \in 1..s[1] |-> [c \in 1..s[2] |-> F(<<r, c>>)]]

generate_change_map_mut(before, after) ==
    IF ~broadcastable(shape_of(before), shape_of(after))
    THEN [status |-> "ValueError"]
    ELSE [status |-> "ok",
          value  |-> Elementwise(broadcast_shape(shape_of(before), shape_of(after)),
                                 LAMBDA p : IF at(before, p) # at(after, p) THEN 0 ELSE 1)]

\* _generate_change_map (lines 162-164): (before != after).astype(np.uint8).
\* Shapes that do not broadcast raise; shapes that do are broadcast.
generate_change_map(before, after) ==
    IF ~broadcastable(shape_of(before), shape_of(after))
    THEN [status |-> "ValueError"]
    ELSE [status |-> "ok",
          value  |-> Elementwise(broadcast_shape(shape_of(before), shape_of(after)),
                                 LAMBDA p : IF at(before, p) # at(after, p) THEN 1 ELSE 0)]

\* _generate_class_transition_map (lines 166-171), in uint16
generate_class_transition_map(before, after) ==
    Elementwise(broadcast_shape(shape_of(before), shape_of(after)),
                LAMBDA p : ((at(before, p) % 65536) * 100 + (at(after, p) % 65536)) % 65536)

\* cv2.connectedComponentsWithStats(change_map, connectivity=8)
Adjacent8(p, q) == p # q /\ Abs(p[1] - q[1]) <= 1 /\ Abs(p[2] - q[2]) <= 1

RECURSIVE Grow(_, _)
Grow(S, F) ==
    LET T == S \cup {q \in F : \E p \in S : Adjacent8(p, q)}
    IN  IF T = S THEN S ELSE Grow(T, F)

Foreground(change_map) == {p \in GridPixels(shape_of(change_map)) : at(change_map, p) # 0}

Components(F) == {Grow({p}, F) : p \in F}

\* Labels are numbered in the order the labelling algorithm first meets a
\* component: pixel by pixel in raster order, or 2x2 block by block,
\* depending on the algorithm of the OpenCV build.
ScanOrders == {"raster", "block"}

ScanKey(p, width, scan) ==
    IF scan = "raster" THEN (p[1] - 1) * width + (p[2] - 1)
    ELSE ((p[1] - 1) \div 2) * width + ((p[2] - 1) \div 2)

FirstMet(R, width, scan) ==
    CHOOSE k \in {ScanKey(p, width, scan) : p \in R} :
        \A p \in R : k <= ScanKey(p, width, scan)

RECURSIVE InLabelOrder(_, _, _)
InLabelOrder(C, width, scan) ==
    IF C = {} THEN <<>>
    ELSE LET R == CHOOSE R1 \in C :
                      \A R2 \in C : FirstMet(R1, width, scan) <= FirstMet(R2, width, scan)
         IN  <<R>> \o InLabelOrder(C \ {R}, width, scan)

\* The regions of labels 1 .. num_labels - 1, each the set of its pixels
connectedComponentsWithStats(change_map, scan) ==
    InLabelOrder(Components(Foreground(change_map)), Len(change_map[1]), scan)

\* _get_bounding_box (lines 230-236): (x, y, w, h), from 0
get_bounding_box(R) ==
    LET rows == {p[1] : p \in R}
        cols == {p[2] : p \in R}
        top    == CHOOSE r \in rows : \A r2 \in rows : r <= r2
        bottom == CHOOSE r \in rows : \A r2 \in rows : r >= r2
        left   == CHOOSE c \in cols : \A c2 \in cols : c <= c2
        right  == CHOOSE c \in cols : \A c2 \in cols : c >= c2
    IN  <<left - 1, top - 1, right - left + 1, bottom - top + 1>>

\* Number of pixels of region R holding label l in grid
CountIn(grid, R, l) == Cardinality({p \in R : at(grid, p) = l})

LabelsIn(grid, R) == {at(grid, p) : p \in R}

\* np.bincount(classes).argmax(): the smallest of the most frequent labels
bincount_argmax(grid, R) ==
    CHOOSE l \in LabelsIn(grid, R) :
        \A l2 \in LabelsIn(grid, R) :
            \/ CountIn(grid, R, l) > CountIn(grid, R, l2)
            \/ (CountIn(grid, R, l) = CountIn(grid, R, l2) /\ l <= l2)

\* counts / len(classes) at one class id: a float
class_pct(grid, R, l) == IntDiv(CountIn(grid, R, l), Cardinality(R))

\* _is_disaster_pattern (lines 269-285): the float difference of the barren
\* (4) or water (0) fractions exceeds the float 0.3
is_disaster_pattern(before, after, R) ==
    LET barren_increase == FSub(class_pct(after, R, 4), class_pct(before, R, 4))
        water_increase  == FSub(class_pct(after, R, 0), class_pct(before, R, 0))
    IN  FLess(RoundRat(3, 10, 0), barren_increase) \/ FLess(RoundRat(3, 10, 0), water_increase)

\* _classify_region_change (lines 238-267)
classify_region_change(before, after, R) ==
    LET before_class_name == LAND_COVER_CLASSES(bincount_argmax(before, R))
        after_class_name  == LAND_COVER_CLASSES(bincount_argmax(after, R))
        rules == {t \in CHANGE_RULES : t[1] = before_class_name /\ t[2] = after_class_name}
    IN  IF rules # {} THEN (CHOOSE t \in rules : TRUE)[3]
        ELSE IF is_disaster_pattern(before, after, R) THEN "disaster_damage"
        ELSE "no_change"

\* A confidence is the fraction num / den.
\* _estimate_confidence (lines 287-309): the mean of the two consistencies,
\* clamped to [0.3, 0.95]
estimate_confidence(before, after, R) ==
    LET n == Cardinality(R)
        agree == CountIn(before, R, bincount_argmax(before, R))
                 + CountIn(after, R, bincount_argmax(after, R))
    IN  IF 100 * agree > 95 * 2 * n THEN [num |-> 95, den |-> 100]
        ELSE IF 100 * agree < 30 * 2 * n THEN [num |-> 30, den |-> 100]
        ELSE [num |-> agree, den |-> 2 * n]

\* np.mean(confidence_scores[region_mask]) (line 209), scores in hundredths
RECURSIVE SumOver(_, _)
SumOver(scores, S) ==
    IF S = {} THEN 0
    ELSE LET p == CHOOSE q \in S : TRUE
         IN  at(scores, p) + SumOver(scores, S \ {p})

mean_confidence_mut(scores, R) == [num |-> SumOver(scores, R), den |-> 100]

mean_confidence(scores, R) == [num |-> SumOver(scores, R), den |-> 100 * Cardinality(R)]

\* _calculate_severity (lines 311-353); area in hundredths of a hectare
calculate_severity_mut(change_type, area_hectares, confidence) ==
    LET area_score == IF area_hectares > 100000 THEN 0
                      ELSE IF area_hectares > 10000 THEN 2
                      ELSE IF area_hectares > 1000 THEN 1
                      ELSE 3
        type_score == IF change_type \in {"deforestation", "disaster_damage", "water_decrease"}
                      THEN 2
                      ELSE IF change_type \in {"urbanization", "vegetation_to_barren"} THEN 1
                      ELSE 0
        confidence_score == IF 10 * confidence.num > 8 * confidence.den THEN 1 ELSE 0
        severity_score == area_score + type_score + confidence_score
    IN  IF severity_score >= 5 THEN "critical"
        ELSE IF severity_score >= 3 THEN "high"
        ELSE IF severity_score >= 2 THEN "medium"
        ELSE "low"

calculate_severity(change_type, area_hectares, confidence) ==
    LET area_score == IF area_hectares > 100000 THEN 3
                      ELSE IF area_hectares > 10000 THEN 2
                      ELSE IF area_hectares > 1000 THEN 1
                      ELSE 0
        type_score == IF change_type \in {"deforestation", "disaster_damage", "water_decrease"}
                      THEN 2
                      ELSE IF change_type \in {"urbanization", "vegetation_to_barren"} THEN 1
                      ELSE 0
        confidence_score == IF 10 * confidence.num > 8 * confidence.den THEN 1 ELSE 0
        severity_score == area_score + type_score + confidence_score
    IN  IF severity_score >= 5 THEN "critical"
        ELSE IF severity_score >= 3 THEN "high"
        ELSE IF severity_score >= 2 THEN "medium"
        ELSE "low"

ChangeDetection(change_type, confidence, bbox, area_hectares, severity) ==
    [change_type |-> change_type, confidence |-> confidence, bbox |-> bbox,
     area_hectares |-> area_hectares, severity |-> severity]

\* The exception the body of the loop raises for region R, "none" if it
\* raises none: a boolean mask indexes only an array of its own shape
\* (lines 246-247, 209), and np.bincount rejects a negative label (250-251).
region_error(before, after, scores, mask_shape, R) ==
    IF shape_of(before) # mask_shape \/ shape_of(after) # mask_shape THEN "IndexError"
    ELSE IF \E l \in LabelsIn(before, R) \cup LabelsIn(after, R) : l < 0 THEN "ValueError"
    ELSE IF scores # <<>> /\ shape_of(scores) # mask_shape THEN "IndexError"
    ELSE "none"

very_small_region_mut(area_hectares) == area_hectares < 5

\* area_hectares < 0.1 (line 199), areas in hundredths of a hectare
very_small_region(area_hectares) == area_hectares < 10

\* The loop of _detect_change_regions from region i on (lines 189-226). There
\* is no handler in the loop: an exception leaves the function.
RECURSIVE detect_from(_, _, _, _, _, _, _)
detect_from(before, after, mask_shape, scores, ratio, regions, i) ==
    IF i > Len(regions) THEN [status |-> "ok", detections |-> <<>>]
    ELSE LET R == regions[i]
             area_hectares == Cardinality(R) * ratio
             rest == detect_from(before, after, mask_shape, scores, ratio, regions, i + 1)
             err == region_error(before, after, scores, mask_shape, R)
             change_type == classify_region_change(before, after, R)
             region_confidence == IF scores # <<>> THEN mean_confidence(scores, R)
                                  ELSE estimate_confidence(before, after, R)
             detection == ChangeDetection(change_type, region_confidence,
                              get_bounding_box(R), area_hectares,
                              calculate_severity(change_type, area_hectares,
                                                 region_confidence))
         IN  IF very_small_region(area_hectares) THEN rest
             ELSE IF err # "none" THEN [status |-> err, detections |-> <<>>]
             ELSE IF rest.status # "ok" THEN rest
             ELSE [status |-> "ok", detections |-> <<detection>> \o rest.detections]

detect_change_regions_mut(before, after, change_map, scores, ratio, scan) ==
    LET found == detect_from(before, after, shape_of(change_map), scores, ratio,
                             connectedComponentsWithStats(change_map, scan), 1)
    IN  [found EXCEPT !.detections =
             SelectSeq(@, LAMBDA d : d.change_type # "no_change")]

\* _detect_change_regions (lines 173-228)
detect_change_regions(before, after, change_map, scores, ratio, scan) ==
    detect_from(before, after, shape_of(change_map), scores, ratio,
                connectedComponentsWithStats(change_map, scan), 1)

\* _get_severity_summary (lines 401-406)
get_severity_summary(detections) ==
    [sev \in {"low", "medium", "high", "critical"} |->
        Cardinality({i \in DOMAIN detections : detections[i].severity = sev})]

\* _calculate_change_statistics (lines 355-399); a percentage is the fraction
\* num / den
calculate_change_statistics(detections, image_shape_, ratio) ==
    LET total_area_hectares == image_shape_[1] * image_shape_[2] * ratio
        total_changed_area  == SumSeq([i \in DOMAIN detections |-> detections[i].area_hectares])
        types == {detections[i].change_type : i \in DOMAIN detections}
        of(t) == {i \in DOMAIN detections : detections[i].change_type = t}
    IN  IF total_area_hectares = 0 THEN [status |-> "ZeroDivisionError"]
        ELSE [status |-> "ok",
              total_detections |-> Len(detections),
              total_changed_area_hectares |-> total_changed_area,
              overall_change_percentage |-> [num |-> total_changed_area * 100,
                                             den |-> total_area_hectares],
              change_type_breakdown |->
                  [t \in types |->
                      [count |-> Cardinality(of(t)),
                       total_area_hectares |->
                           SumSeq([i \in DOMAIN detections |->
                                      IF i \in of(t) THEN detections[i].area_hectares ELSE 0])]],
              severity_summary |-> get_severity_summary(detections)]

\* analyze_multiclass_changes (lines 100-160): the result, or the exception
\* the except clause logs and raises again
analyze_multiclass_changes(before, after, scores, ratio, scan) ==
    LET change_map == generate_change_map(before, after)
        class_map  == generate_class_transition_map(before, after)
        found      == detect_change_regions(before, after, change_map.value, scores, ratio, scan)
        statistics == calculate_change_statistics(found.detections, shape_of(before), ratio)
    IN  IF change_map.status # "ok" THEN [status |-> change_map.status]
        ELSE IF found.status # "ok" THEN [status |-> found.status]
        ELSE IF statistics.status # "ok" THEN [status |-> statistics.status]
        ELSE [status |-> "ok",
              change_detections |-> found.detections,
              change_map |-> change_map.value,
              class_map |-> class_map,
              statistics |-> statistics,
              confidence_map |-> IF scores = <<>>
                                 THEN Elementwise(shape_of(change_map.value), LAMBDA p : 80)
                                 ELSE scores]

\* Inputs: grids of three shapes; forest (1) with a first column of forest,
\* agriculture (3) or a negative no-data label; any set of pixels of the
\* after grid turned to urban (2), barren (4) or grassland (5).
MultiShapes == {<<1, 3>>, <<2, 3>>, <<2, 2>>}

MakeGrid(sh, base, stripe, M, a) ==
    [r \in 1..sh[1] |-> [c \in 1..sh[2] |->
        IF <<r, c>> \in M THEN a ELSE IF c = 1 THEN stripe ELSE base]]

ScoreMaps(sh) ==
    {<<>>,
     [r \in 1..sh[1] |-> [c \in 1..sh[2] |-> 50]],
     [r \in 1..sh[1] |-> [c \in 1..sh[2] |-> IF c = 1 THEN 50 ELSE 100]]}

HectareRatios == {5, 500}

\* Scenario B inputs: a grid entirely forest (1) turned entirely urban (2)
ScenarioBShapes == (1..3) \X (1..4)

ScenarioBRatios == {1, 5, 500, 15000}

ScenarioBScores(sh) ==
    ScoreMaps(sh) \cup {[r \in 1..sh[1] |-> [c \in 1..sh[2] |-> 100]]}

InitScenarioBVars ==
    /\ \E sh \in ScenarioBShapes :
           /\ before_segmentation = MakeGrid(sh, 1, 1, {}, 2)
           /\ after_segmentation = MakeGrid(sh, 1, 1, GridPixels(sh), 2)
           /\ confidence_scores \in ScenarioBScores(sh)
    /\ pixel_to_hectare_ratio \in ScenarioBRatios
    /\ analysis = NotRun

InitMultiVars ==
    /\ \E shB \in MultiShapes, shA \in MultiShapes, stripe \in {1, 3, -1}, a \in {2, 4, 5} :
           \E M \in SUBSET GridPixels(shA) :
               /\ before_segmentation = MakeGrid(shB, 1, stripe, {}, a)
               /\ after_segmentation = MakeGrid(shA, 1, stripe, M, a)
    /\ confidence_scores \in ScoreMaps(shape_of(after_segmentation))
    /\ pixel_to_hectare_ratio \in HectareRatios
    /\ analysis = NotRun

IdleMultiVars ==
    /\ before_segmentation = <<<<1>>>>
    /\ after_segmentation = <<<<1>>>>
    /\ confidence_scores = <<>>
    /\ pixel_to_hectare_ratio = 1
    /\ analysis = NotRun

AnalyzeMulticlassChanges ==
    /\ analysis.status = "none"
    /\ \E scan \in ScanOrders :
           analysis' = analyze_multiclass_changes(before_segmentation, after_segmentation,
                                                  confidence_scores, pixel_to_hectare_ratio, scan)
    /\ UNCHANGED <<before_segmentation, after_segmentation, confidence_scores,
                   pixel_to_hectare_ratio, floodVars, rasterVars, clusterVars, exportVars,
                   transformVars, assessVars, callVars, batchVars>>

(***************************************************************************)
(* Idle values of the other components' variables                          *)
(***************************************************************************)
IdleAssessVars == overall_assessment = NotRun

IdleCallVars == fn_args = <<>> /\ fn_result = NotRun

IdleBatchVars == tasks = <<>> /\ semaphore = 0 /\ batch = NotRun

IdleOtherVars == IdleAssessVars /\ IdleCallVars /\ IdleBatchVars

IdleRasterVars ==
    /\ damage_zones = <<>>
    /\ priority_map = <<>>
    /\ access_map = <<>>
    /\ evac_i = 0
    /\ access_i = 0

IdleClusterVars ==
    /\ change_detections = <<>>
    /\ max_distance_meters = 1000
    /\ ground_sample_distance = 10
    /\ run1 = NotRun
    /\ run2 = NotRun

IdleExportVars ==
    /\ export_detections = <<>>
    /\ image_shape = <<100, 100>>
    /\ geo_bounds = default_bounds
    /\ geojson = NotRun
    /\ kml = NotRun

(***************************************************************************)
(* Specification of the flood finder                                       *)
(***************************************************************************)
InitFlood == InitFloodVars /\ IdleRasterVars /\ IdleClusterVars /\ IdleExportVars
             /\ IdleTransformVars /\ IdleMultiVars /\ IdleOtherVars

NextFlood == DetectFloodZones

SpecFlood == InitFlood /\ [][NextFlood]_vars

\* The area tiers as the code applies them.
CodeFloodTier(area) ==
    IF area > 10000 THEN "severe"
    ELSE IF area > 1000 THEN "moderate"
    ELSE "minor"

\* The area tiers as the specification states them.
SpecFloodTier(area) ==
    IF area > 10000 THEN "catastrophic"
    ELSE IF area > 1000 THEN "severe"
    ELSE IF area > 0 THEN "moderate"
    ELSE "minor"

\* C1 (as stated): every emitted flood zone has the severity of the tiers
\* >10000 catastrophic, >1000 severe, >0 moderate, else minor; a 40000 m2 zone
\* is catastrophic.
C1_SpecTiers ==
    \A i \in DOMAIN flood_zones :
        flood_zones[i].severity = SpecFloodTier(flood_zones[i].area_sq_meters)

\* C1 (amended): every emitted flood zone has the severity of the tiers
\* >10000 severe, >1000 moderate, else minor; a 40000 m2 zone is severe and no
\* flood zone is catastrophic.
C1_CodeTiers ==
    \A i \in DOMAIN flood_zones :
        /\ flood_zones[i].severity = CodeFloodTier(flood_zones[i].area_sq_meters)
        /\ flood_zones[i].severity # "catastrophic"
        /\ flood_zones[i].area_sq_meters = 40000 => flood_zones[i].severity = "severe"

\* Witness of C1: the finder has emitted a 40000 m2 zone and a zone of the
\* lowest tier.
C1_Witness ==
    /\ flood_pc = "done"
    /\ \E i \in DOMAIN flood_zones : flood_zones[i].area_sq_meters = 40000
    /\ \E i \in DOMAIN flood_zones : flood_zones[i].area_sq_meters <= 1000

\* Scenario C: one solid 200x200 block, not water before and water after, at
\* pixel_to_meter_ratio 1.
ScenarioC ==
    /\ Len(scene) = 1
    /\ scene[1].w = 200 /\ scene[1].h = 200
    /\ detect_water(scene[1].pre) = 0
    /\ detect_water(scene[1].post) = 1
    /\ pixel_to_meter_ratio = 1

\* C2: in scenario C flood detection returns exactly one zone, of type
\* FLOODED, whose area is the flooded pixel count times the ratio: 40000.
C2_ScenarioC ==
    (flood_pc = "done" /\ ScenarioC) =>
        /\ Len(flood_zones) = 1
        /\ flood_zones[1].zone_type = "flooded"
        /\ flood_zones[1].area_sq_meters = scene[1].w * scene[1].h * pixel_to_meter_ratio
        /\ flood_zones[1].area_sq_meters = 40000

(***************************************************************************)
(* Specification of the raster generators                                  *)
(***************************************************************************)
InitRaster == IdleFloodVars /\ InitRasterVars /\ IdleClusterVars /\ IdleExportVars
              /\ IdleTransformVars /\ IdleMultiVars /\ IdleOtherVars

NextRaster == EvacStep \/ AccessStep

SpecRaster == InitRaster /\ [][NextRaster]_vars

\* Pixels a zone covers: its polygon when present, else its bounding box.
Covered(zone) ==
    IF zone.polygon_coords # <<>> THEN FillPolyPixels(zone.polygon_coords)
    ELSE SlicePixels(zone.bbox)

SetMax(S) == CHOOSE v \in S : \A u \in S : v >= u

\* C3: after every overlay step each pixel of the two rasters is the maximum
\* fill value over the zones applied so far that cover it (background 0 for
\* priority, 100 for access): no zone lowers a pixel and the order of the
\* zones does not matter.
C3_MaxCombined ==
    \A p \in Pixels :
        /\ priority_map[p] =
              SetMax({0} \cup {priority_value(damage_zones[i]) :
                                 i \in {j \in 1..evac_i : p \in Covered(damage_zones[j])}})
        /\ access_map[p] =
              SetMax({100} \cup {difficulty(damage_zones[i]) :
                                   i \in {j \in 1..access_i : p \in Covered(damage_zones[j])}})

(***************************************************************************)
(* Specification of the clusterer                                          *)
(***************************************************************************)
InitCluster == IdleFloodVars /\ IdleRasterVars /\ InitClusterVars /\ IdleExportVars
               /\ IdleTransformVars /\ IdleMultiVars /\ IdleOtherVars

NextCluster == Cluster1 \/ Cluster2

SpecCluster == InitCluster /\ [][NextCluster]_vars

\* Four times the squared distance between the centres of two bounding boxes
Dist2x4(d1, d2) ==
    LET ax == 2 * d1.bbox[1] + d1.bbox[3]
        ay == 2 * d1.bbox[2] + d1.bbox[4]
        bx == 2 * d2.bbox[1] + d2.bbox[3]
        by == 2 * d2.bbox[2] + d2.bbox[4]
    IN  (ax - bx) * (ax - bx) + (ay - by) * (ay - by)

\* distance(d1, d2) <= max_distance_meters / metres_per_pixel
WithinMetres(d1, d2, metres_per_pixel) ==
    metres_per_pixel * metres_per_pixel * Dist2x4(d1, d2)
        <= 4 * max_distance_meters * max_distance_meters

\* The detection at index i has no other detection within eps
Isolated(i) ==
    \A j \in DOMAIN change_detections :
        j # i => ~WithinMetres(change_detections[i], change_detections[j], 10)

\* C5: a detection with no other detection within eps comes back as a
\* singleton group of kind "individual", and every member of a "cluster" group
\* has another detection within eps.
C5_IsolatedIsIndividual ==
    run1.status = "ok" =>
        /\ \A i \in DOMAIN change_detections :
               Isolated(i) =>
                   \E k \in DOMAIN run1.groups :
                       /\ run1.groups[k].type = "individual"
                       /\ run1.groups[k].detections = <<change_detections[i]>>
        /\ \A k \in DOMAIN run1.groups :
               run1.groups[k].type = "cluster" =>
                   \A m \in DOMAIN run1.groups[k].detections :
                       \E i, j \in DOMAIN change_detections :
                           /\ i # j
                           /\ change_detections[i] = run1.groups[k].detections[m]
                           /\ WithinMetres(change_detections[i], change_detections[j], 10)

\* C6: two calls on the same detection list, in the same order, return
\* identical groups, whatever the process each runs in.
C6_Deterministic ==
    (run1.status # "none" /\ run2.status # "none") => run1 = run2

RECURSIVE AreaUpTo(_, _)
AreaUpTo(members, n) == IF n = 0 THEN 0 ELSE AreaUpTo(members, n - 1) + members[n].area

Results == {r \in {run1, run2} : r.status = "ok"}

\* C7: for every returned group the reported total area is the sum of the
\* areas of its member detections and count is the number of members.
C7_AreaAndCount ==
    \A r \in Results :
        \A k \in DOMAIN r.groups :
            /\ r.groups[k].total_area_hectares =
                   AreaUpTo(r.groups[k].detections, Len(r.groups[k].detections))
            /\ r.groups[k].count = Len(r.groups[k].detections)

\* Witness of C7: a call has returned a group of two members of different
\* areas, whose total is 12, next to a second group.
C7_Witness ==
    /\ run1.status = "ok"
    /\ \E k \in DOMAIN run1.groups :
           /\ run1.groups[k].count = 2
           /\ run1.groups[k].detections[1].area # run1.groups[k].detections[2].area
           /\ run1.groups[k].total_area_hectares = 12
    /\ Len(run1.groups) = 2

\* Rank of a severity on the canonical four-level scale of both vocabularies
CanonRank(sev) ==
    IF sev \in {"low", "minor"} THEN 0
    ELSE IF sev \in {"medium", "moderate"} THEN 1
    ELSE IF sev \in {"high", "severe"} THEN 2
    ELSE 3

\* C8: no member of a group has a severity ranked, on the canonical scale of
\* both vocabularies, above the group's max_severity.
C8_MaxSeverity ==
    run1.status = "ok" =>
        \A k \in DOMAIN run1.groups :
            \A m \in DOMAIN run1.groups[k].detections :
                CanonRank(run1.groups[k].detections[m].severity)
                    <= CanonRank(run1.groups[k].max_severity)

(***************************************************************************)
(* Specification of scenario D                                             *)
(***************************************************************************)
InitScenarioD == IdleFloodVars /\ IdleRasterVars /\ InitScenarioDVars /\ IdleExportVars
                 /\ IdleTransformVars /\ IdleMultiVars /\ IdleOtherVars

NextScenarioD == Cluster1

SpecScenarioD == InitScenarioD /\ [][NextScenarioD]_vars

MutuallyWithin(metres_per_pixel) ==
    \A i, j \in DOMAIN change_detections :
        WithinMetres(change_detections[i], change_detections[j], metres_per_pixel)

OneGroupOfAll ==
    /\ run1.status = "ok"
    /\ Len(run1.groups) = 1
    /\ run1.groups[1].count = Len(change_detections)
    /\ run1.groups[1].count = ScenarioDCount

\* C4 (as stated): detections whose centres are mutually within
\* max_distance_meters, converted to pixels at the ground-sample-distance of
\* the imagery, come out as exactly one group holding all of them.
C4_RadiusAtGsd ==
    (run1.status # "none" /\ MutuallyWithin(ground_sample_distance)) => OneGroupOfAll

\* C4 (amended): the radius is max_distance_meters / 10 pixels whatever the
\* ground-sample-distance, and detections whose centres are mutually within
\* that radius come out as exactly one group holding all of them.
C4_RadiusAtTenMetres ==
    (run1.status # "none" /\ MutuallyWithin(10)) => OneGroupOfAll

\* Witness of C4: the scenario-D list occupies two sites 90 pixels apart, the
\* radius is 100 pixels, the imagery is not at 10 m per pixel, and the call
\* has returned one group of all the detections.
C4_Witness ==
    /\ OneGroupOfAll
    /\ MutuallyWithin(10)
    /\ ground_sample_distance # 10
    /\ \E i, j \in DOMAIN change_detections :
           Dist2x4(change_detections[i], change_detections[j]) = 4 * 90 * 90

(***************************************************************************)
(* Specification of the exporters                                          *)
(***************************************************************************)
InitExport == IdleFloodVars /\ IdleRasterVars /\ IdleClusterVars /\ InitExportVars
              /\ IdleTransformVars /\ IdleMultiVars /\ IdleOtherVars

NextExport == ConvertToGeojson \/ ConvertToKml

SpecExport == InitExport /\ [][NextExport]_vars

Closed(ring) == ring # <<>> /\ ring[1] = ring[Len(ring)]

\* C9: every polygon ring written by convert_to_geojson and convert_to_kml is
\* closed, its first coordinate equal to its last, whether it comes from a
\* polygon (closed or not) or from a bounding box.
C9_RingsClosed ==
    /\ geojson.status = "ok" =>
           \A i \in DOMAIN geojson.features :
               \A r \in DOMAIN geojson.features[i].geometry.coordinates :
                   Closed(geojson.features[i].geometry.coordinates[r])
    /\ kml.status = "ok" =>
           \A i \in DOMAIN kml.placemarks :
               \A r \in DOMAIN kml.placemarks[i].polygon :
                   Closed(kml.placemarks[i].polygon[r])

\* Witness of C9: both exporters have written the rings of a detection with
\* an open polygon, closing them with a fourth coordinate, and of a detection
\* exported through its bounding box.
C9_Witness ==
    /\ geojson.status = "ok" /\ kml.status = "ok"
    /\ \E i \in DOMAIN export_detections :
           export_detections[i].kind = "ChangeDetection"
    /\ \E i \in DOMAIN export_detections :
           /\ export_detections[i].kind = "Record"
           /\ export_detections[i].polygon_coords = OpenTriangle
           /\ \E f \in DOMAIN geojson.features :
                  /\ geojson.features[f].id = i - 1
                  /\ Len(geojson.features[f].geometry.coordinates[1]) = 4
                  /\ geojson.features[f].geometry.coordinates[1][1]
                         # geojson.features[f].geometry.coordinates[1][2]
           /\ Len(kml.placemarks[i].polygon[1]) = 4

\* C10: convert_to_geojson returns a FeatureCollection with exactly one
\* Polygon Feature per input detection, in input order, for change detections
\* and damage zones alike, and feature_count is the number of detections.
C10_OneFeaturePerDetection ==
    geojson.status = "ok" =>
        /\ geojson.type = "FeatureCollection"
        /\ Len(geojson.features) = Len(export_detections)
        /\ geojson.metadata.feature_count = Len(export_detections)
        /\ \A i \in DOMAIN geojson.features :
               /\ geojson.features[i].id = i - 1
               /\ geojson.features[i].geometry.type = "Polygon"

\* C11: the Document of convert_to_kml holds exactly one Placemark per input
\* detection, and every Placemark has a Polygon ring and a styleUrl naming a
\* Style of the same Document: the style keyed by its change type, else
\* "default".
C11_PlacemarkPerDetection ==
    kml.status = "ok" =>
        /\ Len(kml.placemarks) = Len(export_detections)
        /\ \A i \in DOMAIN kml.placemarks :
               /\ Len(kml.placemarks[i].polygon) = 1
               /\ kml.placemarks[i].styleUrl \in kml.styles
               /\ kml.placemarks[i].styleUrl =
                      (IF export_detections[i].type \in kml.styles \ {"default"}
                       THEN export_detections[i].type ELSE "default")

\* The pixel quadrilateral of a bounding box, corner by corner.
BoxQuad(box) ==
    << <<box[1], box[2]>>, <<box[1] + box[3], box[2]>>,
       <<box[1] + box[3], box[2] + box[4]>>, <<box[1], box[2] + box[4]>>,
       <<box[1], box[2]>> >>

NoPolygon(d) == ~("polygon_coords" \in AttrsOf(d.kind)) \/ d.polygon_coords = <<>>

InitTransform == IdleFloodVars /\ IdleRasterVars /\ IdleClusterVars /\ InitTransformVars
                 /\ IdleMultiVars /\ IdleOtherVars

NextTransform == PixelToGeo

SpecTransform == InitTransform /\ [][NextTransform]_vars

\* Exact arithmetic on numbers m * 2^e, for stating distances
XAbs(a) == [m |-> Abs(a.m), e |-> a.e]
XAdd(a, b) == Normal(Aligned(a, MinExp(a, b)) + Aligned(b, MinExp(a, b)), MinExp(a, b))
XSub(a, b) == XAdd(a, FNeg(b))
XMul(a, b) == Normal(a.m * b.m, a.e + b.e)

\* k units of 2^-Precision, the relative size of one rounding step
Roundings(k) == [m |-> k, e |-> -Precision]

\* a is within k rounding steps, relative to magnitude mag, of b
Near(a, b, k, mag) == FLeq(XAbs(XSub(a, b)), XMul(Roundings(k), mag))

Lat(x, y) == pixel_to_geo(image_shape, geo_bounds, x, y)[1]
Lon(x, y) == pixel_to_geo(image_shape, geo_bounds, x, y)[2]

Monotone ==
    /\ \A x2 \in Coords(image_shape[2]) :
           x2 >= pixel[1] => FLeq(geo.longitude, Lon(x2, pixel[2]))
    /\ \A y2 \in Coords(image_shape[1]) :
           y2 >= pixel[2] => FLeq(Lat(pixel[1], y2), geo.latitude)

ScenarioE ==
    (image_shape = <<100, 100>> /\ geo_bounds = default_bounds /\ pixel = <<0, 0>>)
        => (geo.latitude = Float(40) /\ geo.longitude = Float(-74))

\* C13: the transform maps pixel (0,0) to (north, west) and pixel (W,H) to
\* (south, east), longitude is non-decreasing in x and latitude non-increasing
\* in y, so every in-range pixel lands inside the bounds; with bounds 40, 39,
\* -73, -74 on a 100x100 image pixel (0,0) maps to (40.0, -74.0).
C13_CornersExact ==
    geo.status = "ok" =>
        /\ Lat(0, 0) = geo_bounds.north /\ Lon(0, 0) = geo_bounds.west
        /\ Lat(image_shape[2], image_shape[1]) = geo_bounds.south
        /\ Lon(image_shape[2], image_shape[1]) = geo_bounds.east
        /\ Monotone
        /\ FLeq(geo_bounds.west, geo.longitude) /\ FLeq(geo.longitude, geo_bounds.east)
        /\ FLeq(geo_bounds.south, geo.latitude) /\ FLeq(geo.latitude, geo_bounds.north)
        /\ ScenarioE

\* C13, as the code computes it: pixel (0,0) maps to longitude west exactly
\* and pixel (W,H) to latitude south exactly; the latitude of (0,0) and the
\* longitude of (W,H) are north and east up to four rounding steps of the
\* bounds' magnitude; longitude is non-decreasing in x and latitude
\* non-increasing in y, so every in-range pixel lies between (south, west)
\* and those two images; scenario E is exact.
C13_CornersUpToRounding ==
    geo.status = "ok" =>
        /\ Lon(0, 0) = geo_bounds.west
        /\ Lat(image_shape[2], image_shape[1]) = geo_bounds.south
        /\ Near(Lat(0, 0), geo_bounds.north, 4,
                XAdd(XAbs(geo_bounds.north), XAbs(geo_bounds.south)))
        /\ Near(Lon(image_shape[2], image_shape[1]), geo_bounds.east, 4,
                XAdd(XAbs(geo_bounds.east), XAbs(geo_bounds.west)))
        /\ Monotone
        /\ FLeq(geo_bounds.west, geo.longitude)
        /\ FLeq(geo.longitude, Lon(image_shape[2], pixel[2]))
        /\ FLeq(geo_bounds.south, geo.latitude)
        /\ FLeq(geo.latitude, Lat(pixel[1], 0))
        /\ ScenarioE

\* Witness of C13: an interior pixel has been transformed under bounds whose
\* north-west corner is not reached exactly, and lies strictly inside.
C13_Witness ==
    /\ geo.status = "ok"
    /\ Lat(0, 0) # geo_bounds.north
    /\ pixel[1] > 0 /\ pixel[1] < image_shape[2]
    /\ pixel[2] > 0 /\ pixel[2] < image_shape[1]
    /\ FLess(geo_bounds.west, geo.longitude) /\ FLess(geo.longitude, geo_bounds.east)
    /\ FLess(geo_bounds.south, geo.latitude) /\ FLess(geo.latitude, geo_bounds.north)

\* a / b for b > 0
FDiv(a, b) == RoundRat(a.m, b.m, a.e - b.e)

\* The inverse of the transform, computed in floats:
\*   x = W * (lon - west) / (east - west)
\*   y = H * (1 - (lat - south) / (north - south))
InverseX(lon) ==
    FDiv(FMul(Float(image_shape[2]), FSub(lon, geo_bounds.west)),
         FSub(geo_bounds.east, geo_bounds.west))

InverseY(lat) ==
    FMul(Float(image_shape[1]),
         FSub(Float(1), FDiv(FSub(lat, geo_bounds.south),
                             FSub(geo_bounds.north, geo_bounds.south))))

\* C14: transforming an in-bounds pixel and applying the inverse returns the
\* pixel, and distinct in-bounds pixels map to distinct coordinates.
C14_RoundTripExact ==
    geo.status = "ok" =>
        /\ InverseX(geo.longitude) = Float(pixel[1])
        /\ InverseY(geo.latitude) = Float(pixel[2])
        /\ \A x2 \in Coords(image_shape[2]), y2 \in Coords(image_shape[1]) :
               <<x2, y2>> # pixel =>
                   <<Lat(x2, y2), Lon(x2, y2)>> # <<geo.latitude, geo.longitude>>

\* C14, as the code computes it: the round trip returns the pixel up to
\* rounding, |x' - x| * (east - west) <= 8 * 2^-Precision * W * (|east| + |west|)
\* and |y' - y| * (north - south) <= 8 * 2^-Precision * H * (|north| + |south|);
\* it is exact for x = 0 and for y = H.
C14_RoundTripUpToRounding ==
    geo.status = "ok" =>
        /\ FLeq(XMul(XAbs(XSub(InverseX(geo.longitude), Float(pixel[1]))),
                     XSub(geo_bounds.east, geo_bounds.west)),
                XMul(XMul(Roundings(8), Float(image_shape[2])),
                     XAdd(XAbs(geo_bounds.east), XAbs(geo_bounds.west))))
        /\ FLeq(XMul(XAbs(XSub(InverseY(geo.latitude), Float(pixel[2]))),
                     XSub(geo_bounds.north, geo_bounds.south)),
                XMul(XMul(Roundings(8), Float(image_shape[1])),
                     XAdd(XAbs(geo_bounds.north), XAbs(geo_bounds.south))))
        /\ pixel[1] = 0 => InverseX(geo.longitude) = Float(0)
        /\ pixel[2] = image_shape[1] => InverseY(geo.latitude) = Float(image_shape[1])

\* Witness of C14: an interior pixel has been transformed under bounds wide
\* enough for the tolerance to be below half a pixel, and the round trip
\* returns a different number.
C14_Witness ==
    /\ geo.status = "ok"
    /\ geo_bounds = unit_bounds
    /\ image_shape = <<3, 5>>
    /\ pixel[1] > 0 /\ pixel[2] > 0 /\ pixel[2] < image_shape[1]
    /\ \/ InverseX(geo.longitude) # Float(pixel[1])
       \/ InverseY(geo.latitude) # Float(pixel[2])

(***************************************************************************)
(* Specification of the multi-class analyzer                               *)
(***************************************************************************)
InitMulti == IdleFloodVars /\ IdleRasterVars /\ IdleClusterVars /\ IdleExportVars
             /\ IdleTransformVars /\ InitMultiVars /\ IdleOtherVars

NextMulti == AnalyzeMulticlassChanges

SpecMulti == InitMulti /\ [][NextMulti]_vars

\* C15: when the before and after grids have different dimensions the
\* analysis fails; it returns no result computed from padded, cropped or
\* broadcast grids.
C15_ShapeMismatchFails ==
    (analysis.status # "none"
     /\ shape_of(before_segmentation) # shape_of(after_segmentation))
        => analysis.status # "ok"

(***************************************************************************)
(* Specification of the detectors: one call of the multi-class analyzer or *)
(* one call of the damage-zone detectors                                   *)
(***************************************************************************)
InitDamage == InitDamageVars /\ IdleRasterVars /\ IdleClusterVars /\ IdleExportVars
              /\ IdleTransformVars /\ IdleMultiVars /\ IdleOtherVars

InitDetectors == InitMulti \/ InitDamage

NextDetectors == AnalyzeMulticlassChanges \/ DetectDamageZones

SpecDetectors == InitDetectors /\ [][NextDetectors]_vars

\* The minimum area of a zone type, in square metres
ZoneMinimum(zone_type) ==
    CASE zone_type = "flooded"   -> 100
      [] zone_type = "burned"    -> 500
      [] zone_type = "collapsed" -> 50
      [] zone_type = "debris"    -> 100

\* C16: every accepted detection has an area at or above the minimum of the
\* component that produced it: 0.1 hectare for a multi-class detection, 100,
\* 500, 50 and 100 square metres for a flood, burn, collapse and generic
\* zone; a smaller component is dropped and raises no error.
C16_AreaAtLeastMinimum ==
    /\ analysis.status = "ok" =>
           /\ \A i \in DOMAIN analysis.change_detections :
                  analysis.change_detections[i].area_hectares >= 10
           /\ \A R \in Components(Foreground(analysis.change_map)) :
                  Cardinality(R) * pixel_to_hectare_ratio < 10 =>
                      \A i \in DOMAIN analysis.change_detections :
                          analysis.change_detections[i].bbox # get_bounding_box(R)
    /\ flood_pc = "done" =>
           /\ \A i \in DOMAIN flood_zones :
                  flood_zones[i].area_sq_meters >= ZoneMinimum(flood_zones[i].zone_type)
           /\ \A k \in DOMAIN scene :
                  LET c == findContour(SlotX(k), SlotY(k), scene[k].w, scene[k].h)
                  IN  (\A t \in {"flooded", "burned", "collapsed", "debris"} :
                           contourArea(c) * pixel_to_meter_ratio < ZoneMinimum(t))
                      => \A i \in DOMAIN flood_zones : flood_zones[i].polygon_coords # c

\* Witness of C16: the analyzer kept a region and dropped a smaller one.
C16_Witness ==
    /\ analysis.status = "ok"
    /\ Len(analysis.change_detections) = 1
    /\ Cardinality(Components(Foreground(analysis.change_map))) = 2

InRange01(confidence) ==
    /\ confidence.den > 0
    /\ 0 <= confidence.num
    /\ confidence.num <= confidence.den

\* C17: every accepted detection has a confidence in [0, 1]: estimated from
\* the class consistency of the region, the mean of the caller's confidence
\* map over the region, or the constant of the damage-zone detector.
C17_ConfidenceInRange ==
    /\ analysis.status = "ok" =>
           \A i \in DOMAIN analysis.change_detections :
               InRange01(analysis.change_detections[i].confidence)
    /\ flood_pc = "done" =>
           \A i \in DOMAIN flood_zones :
               0 <= flood_zones[i].confidence /\ flood_zones[i].confidence <= 100

\* Witness of C17: a detection whose confidence is the mean of a map that is
\* not uniform over its region.
C17_Witness ==
    /\ analysis.status = "ok"
    /\ confidence_scores # <<>>
    /\ \E i \in DOMAIN analysis.change_detections :
           LET c == analysis.change_detections[i].confidence
           IN  2 * c.num > c.den /\ c.num < c.den

\* C19: two identical label grids yield an all-zero change mask, zero
\* detections, total_detections = 0 and overall_change_percentage = 0.
C19_ScenarioA ==
    (analysis.status # "none" /\ before_segmentation = after_segmentation) =>
        /\ analysis.status = "ok"
        /\ \A p \in GridPixels(shape_of(analysis.change_map)) : at(analysis.change_map, p) = 0
        /\ analysis.change_detections = <<>>
        /\ analysis.statistics.total_detections = 0
        /\ analysis.statistics.overall_change_percentage.num = 0

\* Witness of C19: the analyzer has run on two identical 2x3 grids.
C19_Witness ==
    /\ analysis.status = "ok"
    /\ before_segmentation = after_segmentation
    /\ shape_of(before_segmentation) = <<2, 3>>

\* The regions the loop accepts
Accepted ==
    {R \in Components(Foreground(
              generate_change_map(before_segmentation, after_segmentation).value)) :
        ~very_small_region(Cardinality(R) * pixel_to_hectare_ratio)}

\* C20: when classifying, scoring or measuring one region fails, that region
\* alone is skipped: the call still returns, with a detection for every other
\* region.
C20_FailingRegionSkipped ==
    (analysis.status # "none"
     /\ shape_of(before_segmentation) = shape_of(after_segmentation)) =>
        /\ analysis.status = "ok"
        /\ \A R \in Accepted :
               region_error(before_segmentation, after_segmentation, confidence_scores,
                            shape_of(before_segmentation), R) = "none"
               => \E i \in DOMAIN analysis.change_detections :
                      analysis.change_detections[i].bbox = get_bounding_box(R)

(***************************************************************************)
(* Specification of scenario B: one call of the multi-class analyzer on a   *)
(* grid entirely forest before and entirely urban after                    *)
(***************************************************************************)
InitScenarioB == IdleFloodVars /\ IdleRasterVars /\ IdleClusterVars /\ IdleExportVars
                 /\ IdleTransformVars /\ InitScenarioBVars /\ IdleOtherVars

NextScenarioB == AnalyzeMulticlassChanges

SpecScenarioB == InitScenarioB /\ [][NextScenarioB]_vars

SeverityRank(severity) ==
    CASE severity = "low" -> 0
      [] severity = "medium" -> 1
      [] severity = "high" -> 2
      [] severity = "critical" -> 3

\* The confidence input is absent or has one value everywhere
SameEverywhere(scores) ==
    scores = <<>> \/ \A p \in GridPixels(shape_of(scores)) : at(scores, p) = scores[1][1]

\* The same scenario on a grid of another size
ScenarioBOn(sh, scores) ==
    analyze_multiclass_changes(
        MakeGrid(sh, 1, 1, {}, 2), MakeGrid(sh, 1, 1, GridPixels(sh), 2),
        IF scores = <<>> THEN <<>>
        ELSE [r \in 1..sh[1] |-> [c \in 1..sh[2] |-> scores[1][1]]],
        pixel_to_hectare_ratio, CHOOSE scan \in ScanOrders : TRUE)

\* No smaller grid of the scenario has a higher severity tier
NeverDecreases ==
    \A sh \in ScenarioBShapes :
        LET smaller == ScenarioBOn(sh, confidence_scores)
        IN  (sh[1] * sh[2] <= Cardinality(GridPixels(shape_of(before_segmentation)))
             /\ smaller.status = "ok"
             /\ smaller.change_detections # <<>>
             /\ analysis.change_detections # <<>>)
            => SeverityRank(smaller.change_detections[1].severity)
                   <= SeverityRank(analysis.change_detections[1].severity)

\* C18 as stated: for any grid size, a grid entirely forest turned entirely
\* urban yields exactly one detection, of type urbanization, whose severity
\* tier never decreases as the total area grows.
C18_OneUrbanization ==
    analysis.status # "none" =>
        /\ analysis.status = "ok"
        /\ Len(analysis.change_detections) = 1
        /\ analysis.change_detections[1].change_type = "urbanization"
        /\ NeverDecreases

\* C18 amended: a grid entirely forest turned entirely urban yields exactly
\* one detection, of type urbanization and covering the whole grid, when the
\* grid's total area is at least 0.1 ha, and no detection when it is smaller;
\* for one confidence (none supplied, or one value everywhere) the severity
\* tier never decreases as the total area grows.
C18_OneUrbanizationAboveMinimum ==
    analysis.status # "none" =>
        LET sh    == shape_of(before_segmentation)
            total == sh[1] * sh[2] * pixel_to_hectare_ratio
        IN  /\ analysis.status = "ok"
            /\ total < 10 => analysis.change_detections = <<>>
            /\ total >= 10 =>
                   /\ Len(analysis.change_detections) = 1
                   /\ analysis.change_detections[1].change_type = "urbanization"
                   /\ analysis.change_detections[1].area_hectares = total
                   /\ analysis.change_detections[1].bbox = get_bounding_box(GridPixels(sh))
            /\ SameEverywhere(confidence_scores) => NeverDecreases

\* Witness of C18: the scenario on a 3x4 grid, without a confidence map, has
\* one detection of tier high.
C18_Witness ==
    /\ analysis.status = "ok"
    /\ shape_of(before_segmentation) = <<3, 4>>
    /\ confidence_scores = <<>>
    /\ Len(analysis.change_detections) = 1
    /\ analysis.change_detections[1].severity = "high"

(***************************************************************************)
(* Specification of the downstream stages: one detection list handed to    *)
(* clustering and both exporters, one zone list handed to the assessment   *)
(* and both raster generators, one pair of grids handed to the analyzer    *)
(***************************************************************************)
DownstreamDetections ==
    LET d1 == Detection("ChangeDetection", "deforestation", "low", <<0, 0, 10, 10>>, <<>>, 1, 90)
        d2 == Detection("ChangeDetection", "urbanization", "critical", <<60, 0, 10, 10>>, <<>>, 2, 50)
    IN  {<<>>, <<d1>>, <<d1, d2>>}

DownstreamZones ==
    LET z1 == ZoneOf(<<0, 0, 2, 2>>, "severe", "flooded", TRUE)
        z2 == ZoneOf(<<1, 1, 2, 2>>, "minor", "burned", FALSE)
    IN  {<<>>, <<z1>>, <<z1, z2>>}

InitDownstream ==
    /\ IdleFloodVars /\ IdleTransformVars /\ IdleCallVars /\ IdleBatchVars
    /\ change_detections \in DownstreamDetections
    /\ export_detections = change_detections
    /\ max_distance_meters = 1000
    /\ ground_sample_distance = 10
    /\ run1 = NotRun
    /\ run2 = NotRun
    /\ image_shape \in ImageShapes
    /\ geo_bounds = default_bounds
    /\ geojson = NotRun
    /\ kml = NotRun
    /\ damage_zones \in DownstreamZones
    /\ priority_map = [p \in Pixels |-> 0]
    /\ access_map = [p \in Pixels |-> 100]
    /\ evac_i = 0
    /\ access_i = 0
    /\ overall_assessment = NotRun
    /\ before_segmentation = MakeGrid(<<2, 2>>, 1, 1, {}, 2)
    /\ after_segmentation \in {MakeGrid(<<2, 2>>, 1, 1, M, 2) : M \in {{}, {<<1, 1>>, <<1, 2>>}}}
    /\ confidence_scores = <<>>
    /\ pixel_to_hectare_ratio = 5
    /\ analysis = NotRun

NextDownstream ==
    \/ Cluster1
    \/ ConvertToGeojson
    \/ ConvertToKml
    \/ AssessOverallDamage
    \/ EvacStep
    \/ AccessStep
    \/ AnalyzeMulticlassChanges

SpecDownstream == InitDownstream /\ [][NextDownstream]_vars

\* C21: an empty detection list is a valid input to every downstream stage:
\* clustering returns no group, GeoJSON export a FeatureCollection with no
\* feature and feature_count 0, KML export a Document with no Placemark,
\* statistics and damage assessment zero counts and zero area, and the two
\* rasters hold only their background values 0 and 100.
C21_EmptyListIsValid ==
    /\ (change_detections = <<>> /\ run1.status # "none") =>
           run1.status = "ok" /\ run1.groups = <<>>
    /\ (export_detections = <<>> /\ geojson.status # "none") =>
           /\ geojson.status = "ok"
           /\ geojson.type = "FeatureCollection"
           /\ geojson.features = <<>>
           /\ geojson.metadata.feature_count = 0
    /\ (export_detections = <<>> /\ kml.status # "none") =>
           kml.status = "ok" /\ kml.placemarks = <<>>
    /\ (analysis.status # "none" /\ before_segmentation = after_segmentation) =>
           /\ analysis.status = "ok"
           /\ analysis.change_detections = <<>>
           /\ analysis.statistics.total_detections = 0
           /\ analysis.statistics.total_changed_area_hectares = 0
           /\ DOMAIN analysis.statistics.change_type_breakdown = {}
    /\ (damage_zones = <<>> /\ overall_assessment.status # "none") =>
           /\ overall_assessment.status = "ok"
           /\ overall_assessment.total_damage_zones = 0
           /\ overall_assessment.total_damaged_area_sq_meters = 0
           /\ overall_assessment.damage_percentage.num = 0
           /\ overall_assessment.structures_affected = 0
           /\ DOMAIN overall_assessment.damage_by_type = {}
    /\ damage_zones = <<>> =>
           \A p \in Pixels : priority_map[p] = 0 /\ access_map[p] = 100

\* Witness of C21: every stage has run on an empty list.
C21_Witness ==
    /\ change_detections = <<>>
    /\ damage_zones = <<>>
    /\ run1.status = "ok"
    /\ geojson.status = "ok"
    /\ kml.status = "ok"
    /\ overall_assessment.status = "ok"
    /\ analysis.status = "ok"
    /\ analysis.change_detections = <<>>

\* C27: the downstream stages read their inputs only: no step of statistics
\* aggregation, clustering, GeoJSON export, KML export, damage assessment or
\* raster generation changes the detection list, the zone list or the grids.
C27_InputsReadOnly ==
    [][/\ change_detections' = change_detections
       /\ export_detections' = export_detections
       /\ damage_zones' = damage_zones
       /\ before_segmentation' = before_segmentation
       /\ after_segmentation' = after_segmentation
       /\ confidence_scores' = confidence_scores]_vars

\* Witness of C27: every stage has run on a list of two detections, a list of
\* two zones and a pair of grids that differ.
C27_Witness ==
    /\ Len(change_detections) = 2
    /\ Len(damage_zones) = 2
    /\ run1.status = "ok"
    /\ geojson.status = "ok"
    /\ kml.status = "ok"
    /\ overall_assessment.status = "ok"
    /\ evac_i = 2
    /\ access_i = 2
    /\ analysis.status = "ok"
    /\ analysis.change_detections # <<>>

(***************************************************************************)
(* Specification of the ratio computations on degenerate inputs: a zero    *)
(* pixel-to-area ratio and imagery without green                           *)
(***************************************************************************)
Magenta  == <<200, 0, 200>>
Ember    == <<100, 0, 0>>
Charcoal == <<100, 20, 10>>

\* Blocks 11 x 51 whose pre-image has no green
ZeroGreenBlocks ==
    {[w |-> 11, h |-> 51, pre |-> pre, post |-> post, edge_loss |-> FALSE] :
        pre \in {Magenta, Vegetation}, post \in {Ember, Charcoal, Burnt}}

InitZeroArea ==
    /\ IdleClusterVars /\ IdleExportVars /\ IdleTransformVars /\ IdleCallVars /\ IdleBatchVars
    /\ scene \in SeqsUpTo(ZeroGreenBlocks, 1)
    /\ pixel_to_meter_ratio \in {0, 1, 2}
    /\ disaster_type = "fire"
    /\ flood_zones = <<>>
    /\ flood_pc = "start"
    \* no zone reaches a minimum area when the ratio is zero
    /\ damage_zones \in IF pixel_to_meter_ratio = 0 THEN {<<>>} ELSE DownstreamZones
    /\ priority_map = [p \in Pixels |-> 0]
    /\ access_map = [p \in Pixels |-> 100]
    /\ evac_i = 0
    /\ access_i = 0
    /\ overall_assessment = NotRun
    /\ \E sh \in {<<1, 3>>, <<2, 2>>} : \E M \in SUBSET GridPixels(sh) :
           /\ before_segmentation = MakeGrid(sh, 1, 1, {}, 2)
           /\ after_segmentation = MakeGrid(sh, 1, 1, M, 2)
    /\ confidence_scores = <<>>
    /\ pixel_to_hectare_ratio \in {0, 5}
    /\ analysis = NotRun

NextZeroArea ==
    \/ DetectDamageZones
    \/ AssessOverallDamage
    \/ AnalyzeMulticlassChanges

SpecZeroArea == InitZeroArea /\ [][NextZeroArea]_vars

\* C22: no ratio of the analytic core raises or yields an undefined value on
\* a zero denominator: not the vegetation loss of a burn zone whose pre-region
\* green mean is 0, nor the damage and change percentages of an image whose
\* total area is 0.
C22_GuardedDenominators ==
    /\ overall_assessment.status # "ZeroDivisionError"
    /\ analysis.status # "ZeroDivisionError"
    /\ flood_pc = "done" =>
           \A k \in DOMAIN scene :
               LET contour == findContour(SlotX(k), SlotY(k), scene[k].w, scene[k].h)
               IN  (burn_mask(scene[k]) = 1
                    /\ contourArea(contour) * pixel_to_meter_ratio >= 500)
                   => vegetation_loss(scene[k]).status = "ok"

(***************************************************************************)
(* Specification of the damage-zone dispatch: one call of                  *)
(* _detect_damage_zones                                                    *)
(***************************************************************************)
NextDamage == DetectDamageZones

SpecDamage == InitDamage /\ [][NextDamage]_vars

\* The zone type, confidence (in hundredths) and finder of a disaster type
ZoneKind(type) ==
    IF type = "flood" THEN [zone_type |-> "flooded", confidence |-> 80]
    ELSE IF type = "fire" THEN [zone_type |-> "burned", confidence |-> 75]
    ELSE IF type = "earthquake" THEN [zone_type |-> "collapsed", confidence |-> 70]
    ELSE [zone_type |-> "debris", confidence |-> 60]

\* C23: damage-zone detection dispatches on the disaster type to one finder,
\* so all zones of a result share one zone type and confidence: flood gives
\* only flooded zones (0.8), fire only burned (0.75), earthquake only
\* collapsed (0.7), and every other type only debris zones of severity
\* "moderate" (0.6), without failing.
C23_OneFinderPerType ==
    flood_pc = "done" =>
        \A i \in DOMAIN flood_zones :
            /\ flood_zones[i].zone_type = ZoneKind(disaster_type).zone_type
            /\ flood_zones[i].confidence = ZoneKind(disaster_type).confidence
            /\ disaster_type \notin {"flood", "fire", "earthquake"}
                   => flood_zones[i].severity = "moderate"

\* Witness of C23: a hurricane scene with a flooded block and a burnt block
\* yields two debris zones.
C23_Witness ==
    /\ flood_pc = "done"
    /\ disaster_type = "hurricane"
    /\ Len(flood_zones) = 2
    /\ {scene[k].post : k \in DOMAIN scene} = {Water, Burnt}

(***************************************************************************)
(* Specification of the region classifier: one call of                     *)
(* _classify_region_change on a region of 2, 3 or 10 pixels                *)
(***************************************************************************)
RegionSizes == {2, 3, 10}

\* A row of n labels: k of them the label first, the others the label rest
Row(n, k, first, rest) == <<[c \in 1..n |-> IF c <= k THEN first ELSE rest]>>

InitClassify ==
    /\ IdleFloodVars /\ IdleRasterVars /\ IdleClusterVars /\ IdleExportVars
    /\ IdleTransformVars /\ IdleMultiVars /\ IdleAssessVars /\ IdleBatchVars
    /\ \E n \in RegionSizes, grown \in {0, 4} :
           \E b \in 0..n, a \in 0..n, c1 \in {1, 2, 5, 9}, c2 \in {1, 2, 5, 9} :
               fn_args = [before_seg |-> Row(n, b, grown, c1),
                          after_seg  |-> Row(n, a, grown, c2)]
    /\ fn_result = NotRun

ClassifyRegionChange ==
    /\ fn_result.status = "none"
    /\ fn_result' = [status |-> "ok",
                     change_type |->
                         classify_region_change(fn_args.before_seg, fn_args.after_seg,
                                                GridPixels(shape_of(fn_args.before_seg)))]
    /\ UNCHANGED <<fn_args, floodVars, rasterVars, clusterVars, exportVars, transformVars,
                   multiVars, assessVars, batchVars>>

NextClassify == ClassifyRegionChange

SpecClassify == InitClassify /\ [][NextClassify]_vars

\* The dominant class of a row: the most frequent label, the smallest on a tie
Dominant(row) ==
    LET n(l) == Cardinality({c \in DOMAIN row : row[c] = l})
    IN  CHOOSE l \in Range(row) :
            \A l2 \in Range(row) : n(l) > n(l2) \/ (n(l) = n(l2) /\ l <= l2)

\* The fraction of label l grew by more than 0.3 of the region
GrewByMoreThan30(before_row, after_row, l) ==
    10 * (Cardinality({c \in DOMAIN after_row : after_row[c] = l})
          - Cardinality({c \in DOMAIN before_row : before_row[c] = l}))
        > 3 * Len(before_row)

\* C24: the change type of a region is the transition-table entry of its
\* (dominant before class, dominant after class) when the table has that
\* pair; otherwise disaster damage if the barren or the water fraction of the
\* region grew by more than 0.3, else no change; the dominant class on equal
\* counts is the smallest class id.
C24_ClassifiedByTable ==
    fn_result.status = "ok" =>
        LET before_row == fn_args.before_seg[1]
            after_row  == fn_args.after_seg[1]
            rules == {t \in CHANGE_RULES :
                         /\ t[1] = LAND_COVER_CLASSES(Dominant(before_row))
                         /\ t[2] = LAND_COVER_CLASSES(Dominant(after_row))}
        IN  fn_result.change_type =
                IF rules # {} THEN (CHOOSE t \in rules : TRUE)[3]
                ELSE IF \/ GrewByMoreThan30(before_row, after_row, 4)
                        \/ GrewByMoreThan30(before_row, after_row, 0)
                     THEN "disaster_damage"
                     ELSE "no_change"

(***************************************************************************)
(* Specification of the severity function: one call of _calculate_severity *)
(* on a change type, an area (hundredths of a hectare) and a confidence    *)
(***************************************************************************)
\* The members of the enumeration ChangeType
ChangeType ==
    {"deforestation", "reforestation", "urbanization", "urban_decline", "water_increase",
     "water_decrease", "barren_to_vegetation", "vegetation_to_barren", "disaster_damage",
     "recovery", "no_change"}

\* Areas on both sides of 10, 100 and 1000 hectares, in hundredths of a hectare
SeverityAreas == {0, 10, 999, 1000, 1001, 9999, 10000, 10001, 99999, 100000, 100001, 250000}

\* Confidences on both sides of 0.8
SeverityConfidences ==
    {[num |-> 0, den |-> 1], [num |-> 79, den |-> 100], [num |-> 8, den |-> 10],
     [num |-> 81, den |-> 100], [num |-> 1, den |-> 1]}

InitSeverity ==
    /\ IdleFloodVars /\ IdleRasterVars /\ IdleClusterVars /\ IdleExportVars
    /\ IdleTransformVars /\ IdleMultiVars /\ IdleAssessVars /\ IdleBatchVars
    /\ \E t \in ChangeType, a \in SeverityAreas, c \in SeverityConfidences :
           fn_args = [change_type |-> t, area_hectares |-> a, confidence |-> c]
    /\ fn_result = NotRun

CalculateSeverity ==
    /\ fn_result.status = "none"
    /\ fn_result' = [status |-> "ok",
                     severity |-> calculate_severity(fn_args.change_type,
                                                     fn_args.area_hectares,
                                                     fn_args.confidence)]
    /\ UNCHANGED <<fn_args, floodVars, rasterVars, clusterVars, exportVars, transformVars,
                   multiVars, assessVars, batchVars>>

NextSeverity == CalculateSeverity

SpecSeverity == InitSeverity /\ [][NextSeverity]_vars

\* The score of the stated rule: one point per area threshold exceeded, the
\* bonus of the change type, one point for a confidence above 0.8
StatedScore(change_type, area_hectares, confidence) ==
    Cardinality({limit \in {1000, 10000, 100000} : area_hectares > limit})
    + (CASE change_type \in {"deforestation", "disaster_damage", "water_decrease"} -> 2
         [] change_type \in {"urbanization", "vegetation_to_barren"} -> 1
         [] OTHER -> 0)
    + (IF 10 * confidence.num > 8 * confidence.den THEN 1 ELSE 0)

\* C25: the severity is the tier of the score area tier + type bonus +
\* confidence point (>= 5 critical, >= 3 high, >= 2 medium, else low); a
\* detection of at most 100 hectares is never critical and the result is one
\* of the four tiers.
C25_SeverityIsTierOfScore ==
    fn_result.status = "ok" =>
        LET score == StatedScore(fn_args.change_type, fn_args.area_hectares,
                                 fn_args.confidence)
        IN  /\ fn_result.severity = (CASE score >= 5 -> "critical"
                                       [] score \in {3, 4} -> "high"
                                       [] score = 2 -> "medium"
                                       [] OTHER -> "low")
            /\ fn_args.area_hectares <= 10000 => fn_result.severity # "critical"
            /\ fn_result.severity \in {"low", "medium", "high", "critical"}

\* C25 witness: a deforestation of exactly 100 hectares with confidence above
\* 0.8 has score 4 and is rated high
C25_Witness ==
    /\ fn_result.status = "ok"
    /\ fn_args.change_type = "deforestation"
    /\ fn_args.area_hectares = 10000
    /\ 10 * fn_args.confidence.num > 8 * fn_args.confidence.den
    /\ fn_result.severity = "high"

(***************************************************************************)
(* Specification of the disaster-type resolution at the head of            *)
(* analyze_disaster_impact: the caller's type, or the auto-detected one.   *)
(* The three indices are given in thousandths.                             *)
(***************************************************************************)
detect_disaster_type_mut(water_increase, burn_signature, structural_damage) ==
    IF burn_signature > 300 THEN "fire"
    ELSE IF water_increase > 200 THEN "flood"
    ELSE IF structural_damage > 400 THEN "earthquake"
    ELSE "unknown"

\* _detect_disaster_type (lines 153-169): the decision tree over the indices
detect_disaster_type(water_increase, burn_signature, structural_damage) ==
    IF water_increase > 200 THEN "flood"
    ELSE IF burn_signature > 300 THEN "fire"
    ELSE IF structural_damage > 400 THEN "earthquake"
    ELSE "unknown"

\* Index values on both sides of each threshold
WaterIndices == {-100, 0, 200, 201, 900}
BurnIndices == {0, 300, 301, 1000}
StructuralIndices == {0, 400, 401, 1000}

InitAutoDetect ==
    /\ IdleFloodVars /\ IdleRasterVars /\ IdleClusterVars /\ IdleExportVars
    /\ IdleTransformVars /\ IdleMultiVars /\ IdleAssessVars /\ IdleBatchVars
    /\ \E t \in DisasterTypes \cup {"None"}, w \in WaterIndices, b \in BurnIndices,
          d \in StructuralIndices :
           fn_args = [disaster_type |-> t, water_increase |-> w, burn_signature |-> b,
                      structural_damage |-> d]
    /\ fn_result = NotRun

\* analyze_disaster_impact, lines 115-117
ResolveDisasterType ==
    /\ fn_result.status = "none"
    /\ fn_result' =
           IF fn_args.disaster_type = "None"
           THEN [status |-> "ok", detector_ran |-> TRUE,
                 disaster_type |-> detect_disaster_type(fn_args.water_increase,
                                                        fn_args.burn_signature,
                                                        fn_args.structural_damage)]
           ELSE [status |-> "ok", detector_ran |-> FALSE,
                 disaster_type |-> fn_args.disaster_type]
    /\ UNCHANGED <<fn_args, floodVars, rasterVars, clusterVars, exportVars, transformVars,
                   multiVars, assessVars, batchVars>>

NextAutoDetect == ResolveDisasterType

SpecAutoDetect == InitAutoDetect /\ [][NextAutoDetect]_vars

\* C26: auto-detection is first match wins: water growth above 0.2 gives
\* flood whatever the other indices are, otherwise a burn fraction above 0.3
\* gives fire, otherwise a structural loss above 0.4 gives earthquake,
\* otherwise unknown; it never gives hurricane, landslide or tornado, and it
\* runs only when the caller gave no disaster type.
C26_FirstMatchWins ==
    fn_result.status = "ok" =>
        /\ fn_result.detector_ran <=> fn_args.disaster_type = "None"
        /\ ~fn_result.detector_ran => fn_result.disaster_type = fn_args.disaster_type
        /\ fn_result.detector_ran =>
               /\ fn_args.water_increase > 200 => fn_result.disaster_type = "flood"
               /\ (fn_args.water_increase <= 200 /\ fn_args.burn_signature > 300)
                      => fn_result.disaster_type = "fire"
               /\ (/\ fn_args.water_increase <= 200
                   /\ fn_args.burn_signature <= 300
                   /\ fn_args.structural_damage > 400)
                      => fn_result.disaster_type = "earthquake"
               /\ (/\ fn_args.water_increase <= 200
                   /\ fn_args.burn_signature <= 300
                   /\ fn_args.structural_damage <= 400)
                      => fn_result.disaster_type = "unknown"
               /\ fn_result.disaster_type \notin {"hurricane", "landslide", "tornado"}

\* C26 witness: all three indices are above their thresholds, no type was
\* given, and the detected type is flood
C26_Witness ==
    /\ fn_result.status = "ok"
    /\ fn_result.detector_ran
    /\ fn_args.water_increase > 200
    /\ fn_args.burn_signature > 300
    /\ fn_args.structural_damage > 400
    /\ fn_result.disaster_type = "flood"

(***************************************************************************)
(* Specification of the grouping: one call of cluster_nearby_changes on    *)
(* detections whose centres lie at, below and above eps = 100 pixels       *)
(***************************************************************************)
\* Centres (5,5), (65,5), (105,5), (206,5), (5,85): (5,5)-(105,5) and
\* (65,5)-(5,85) are exactly 100 apart, (105,5)-(206,5) are 101 apart
ComponentBoxes ==
    {<<0, 0, 10, 10>>, <<60, 0, 10, 10>>, <<100, 0, 10, 10>>, <<201, 0, 10, 10>>,
     <<0, 80, 10, 10>>}

ComponentInputs ==
    {Detection("ChangeDetection", "deforestation", "low", b, <<>>, 1, 90) : b \in ComponentBoxes}
    \cup {Detection("ChangeDetection", "urbanization", "high", b, <<>>, 2, 50) :
              b \in ComponentBoxes}

InitComponents ==
    /\ IdleFloodVars /\ IdleRasterVars /\ IdleExportVars /\ IdleTransformVars
    /\ IdleMultiVars /\ IdleOtherVars
    /\ change_detections \in SeqsUpTo(ComponentInputs, MaxDetections)
    /\ max_distance_meters = 1000
    /\ ground_sample_distance = 10
    /\ run1 = NotRun
    /\ run2 = NotRun

NextComponents == Cluster1

SpecComponents == InitComponents /\ [][NextComponents]_vars

\* The centres of two detections are at most eps = max_distance_meters / 10
\* pixels apart
CentresWithinEps(d1, d2) ==
    100 * Dist2x4(d1, d2) <= 4 * max_distance_meters * max_distance_meters

\* A chain of such links joins detections i and j of the list
Chained(i, j) ==
    \E path \in SeqsUpTo(DOMAIN change_detections, Len(change_detections)) :
        /\ path # <<>>
        /\ path[1] = i
        /\ path[Len(path)] = j
        /\ \A k \in 1..(Len(path) - 1) :
               CentresWithinEps(change_detections[path[k]], change_detections[path[k + 1]])

\* The groups of the first call that hold detection i
GroupsHolding(i) ==
    {k \in DOMAIN run1.groups :
        \E m \in DOMAIN run1.groups[k].detections :
            run1.groups[k].detections[m] = change_detections[i]}

\* C28: the groups are the connected components of the graph linking two
\* detections whose centres are at most eps apart: two detections share a
\* group iff a chain of links joins them, every detection is in exactly one
\* group, and the counts of the groups sum to the length of the input.
C28_GroupsAreComponents ==
    run1.status = "ok" =>
        /\ \A i \in DOMAIN change_detections : Cardinality(GroupsHolding(i)) = 1
        /\ \A i, j \in DOMAIN change_detections :
               GroupsHolding(i) = GroupsHolding(j) <=> Chained(i, j)
        /\ \A k \in DOMAIN run1.groups :
               /\ run1.groups[k].count = Len(run1.groups[k].detections)
               /\ Range(run1.groups[k].detections) \subseteq Range(change_detections)
        /\ SumSeq([k \in DOMAIN run1.groups |-> run1.groups[k].count])
               = Len(change_detections)

\* C28 witness: three detections form one group although two of them are
\* farther apart than eps
C28_Witness ==
    /\ run1.status = "ok"
    /\ Len(change_detections) = 3
    /\ Len(run1.groups) = 1
    /\ \E i, j \in DOMAIN change_detections :
           /\ ~CentresWithinEps(change_detections[i], change_detections[j])
           /\ GroupsHolding(i) = GroupsHolding(j)

(***************************************************************************)
(* BatchAnalyzer.process_dataset: one process_pair task per image pair,    *)
(* run by the event loop under a semaphore. A task runs without            *)
(* interruption from one await that suspends it to the next.               *)
(***************************************************************************)
\* Bound: number of image pairs of the dataset (after the max_pairs cut).
MaxPairs == 6

\* self.max_concurrent_requests
max_concurrent_requests == 5

can_acquire_mut(value) == TRUE

\* asyncio.Semaphore.acquire returns at once iff the value is positive;
\* otherwise the task waits
can_acquire(value) == value > 0

\* What a finished task returned: None, or the JSON of the response
ReturnedNone == [kind |-> "None"]

ReturnedResult(i) == [kind |-> "dict", pair |-> i]

InitBatchVars ==
    /\ \E n \in 0..MaxPairs :
           tasks = [i \in 1..n |-> [pc |-> "waiting", attempts |-> 0,
                                    result |-> [kind |-> "pending"]]]
    /\ semaphore = max_concurrent_requests
    /\ batch = NotRun

\* The task of pair i returns value: process_pair ends, the semaphore is
\* released on leaving the async with block
Finished(i, value, permits) ==
    /\ tasks' = [tasks EXCEPT ![i].pc = "done", ![i].result = value,
                              ![i].attempts = IF tasks[i].pc = "waiting" THEN @ + 1 ELSE @]
    /\ semaphore' = permits + 1

\* process_pair up to its first suspension (lines 254-258): the semaphore is
\* taken and validate_image_pair, which is synchronous, runs; an invalid pair
\* returns None at once, a valid one enters analyze_image_pair and suspends
\* in the first file read
Enter(i) ==
    /\ batch.status = "none"
    /\ tasks[i].pc = "waiting"
    /\ can_acquire(semaphore)
    /\ \/ Finished(i, ReturnedNone, semaphore - 1)
       \/ /\ tasks' = [tasks EXCEPT ![i].pc = "reading", ![i].attempts = @ + 1]
          /\ semaphore' = semaphore - 1
    /\ UNCHANGED <<batch, floodVars, rasterVars, clusterVars, exportVars, transformVars,
                   multiVars, assessVars, callVars>>

\* analyze_image_pair, lines 205-208: the files are read and the request is
\* sent, or a read raises and the except clause returns None
ReadFiles(i) ==
    /\ tasks[i].pc = "reading"
    /\ \/ /\ tasks' = [tasks EXCEPT ![i].pc = "posting"]
          /\ UNCHANGED semaphore
       \/ Finished(i, ReturnedNone, semaphore)
    /\ UNCHANGED <<batch, floodVars, rasterVars, clusterVars, exportVars, transformVars,
                   multiVars, assessVars, callVars>>

\* analyze_image_pair, lines 218-230: status 200 returns the JSON; another
\* status, or an exception of the request, returns None
Post(i) ==
    /\ tasks[i].pc = "posting"
    /\ \/ Finished(i, ReturnedResult(i), semaphore)
       \/ Finished(i, ReturnedNone, semaphore)
    /\ UNCHANGED <<batch, floodVars, rasterVars, clusterVars, exportVars, transformVars,
                   multiVars, assessVars, callVars>>

\* [r for r in analysis_results if r is not None and ...] (line 265), from
\* index i on
RECURSIVE successful_results(_, _)
successful_results(ts, i) ==
    IF i > Len(ts) THEN <<>>
    ELSE IF ts[i].result.kind = "dict"
         THEN <<ts[i].result>> \o successful_results(ts, i + 1)
         ELSE successful_results(ts, i + 1)

\* lines 241-243: no pair was found
NoPairs ==
    /\ batch.status = "none"
    /\ tasks = <<>>
    /\ batch' = [status |-> "error"]
    /\ UNCHANGED <<tasks, semaphore, floodVars, rasterVars, clusterVars, exportVars,
                   transformVars, multiVars, assessVars, callVars>>

\* lines 262-280: gather returns when every task has finished
Gather ==
    /\ batch.status = "none"
    /\ tasks # <<>>
    /\ \A i \in DOMAIN tasks : tasks[i].pc = "done"
    /\ batch' = [status |-> "ok",
                 individual_analyses   |-> successful_results(tasks, 1),
                 total_pairs_processed |-> Len(tasks),
                 successful_analyses   |-> Len(successful_results(tasks, 1))]
    /\ UNCHANGED <<tasks, semaphore, floodVars, rasterVars, clusterVars, exportVars,
                   transformVars, multiVars, assessVars, callVars>>

InitBatch ==
    /\ IdleFloodVars /\ IdleRasterVars /\ IdleClusterVars /\ IdleExportVars
    /\ IdleTransformVars /\ IdleMultiVars /\ IdleAssessVars /\ IdleCallVars
    /\ InitBatchVars

NextBatch ==
    \/ \E i \in DOMAIN tasks : Enter(i) \/ ReadFiles(i) \/ Post(i)
    \/ NoPairs
    \/ Gather

SpecBatch == InitBatch /\ [][NextBatch]_vars

\* The pairs inside validation or analysis
InFlight == {i \in DOMAIN tasks : tasks[i].pc \in {"reading", "posting"}}

\* C29: under any interleaving at most max_concurrent_requests pairs are in
\* validation or analysis at once; every pair is attempted exactly once,
\* whatever happened to the others; successful_analyses is at most
\* total_pairs_processed, and individual_analyses holds exactly the pairs
\* that returned a result.
C29_BoundedAndComplete ==
    /\ Cardinality(InFlight) <= max_concurrent_requests
    /\ \A i \in DOMAIN tasks :
           tasks[i].attempts = IF tasks[i].pc = "waiting" THEN 0 ELSE 1
    /\ batch.status = "ok" =>
           /\ \A i \in DOMAIN tasks : tasks[i].pc = "done" /\ tasks[i].attempts = 1
           /\ batch.total_pairs_processed = Len(tasks)
           /\ batch.successful_analyses <= batch.total_pairs_processed
           /\ batch.successful_analyses = Len(batch.individual_analyses)
           /\ {batch.individual_analyses[k].pair : k \in DOMAIN batch.individual_analyses}
                  = {i \in DOMAIN tasks : tasks[i].result.kind = "dict"}
           /\ \A k, l \in DOMAIN batch.individual_analyses :
                  k < l => batch.individual_analyses[k].pair
                               < batch.individual_analyses[l].pair

\* C29 witness: a dataset of more pairs than the semaphore admits has
\* returned, with a pair that failed and a pair that succeeded
C29_Witness ==
    /\ batch.status = "ok"
    /\ Len(tasks) > max_concurrent_requests
    /\ tasks[1].result.kind = "None"
    /\ batch.successful_analyses \in 1..(Len(tasks) - 1)

(***************************************************************************)
(* Specification of the emission of regions: one analysis of a grid of one *)
(* class, urban (2) or forest (1), in which any set of pixels turned to    *)
(* forest, urban, barren (4) or grassland (5)                              *)
(***************************************************************************)
EmitShapes == {<<1, 3>>, <<2, 3>>}

InitEmit ==
    /\ IdleFloodVars /\ IdleRasterVars /\ IdleClusterVars /\ IdleExportVars
    /\ IdleTransformVars /\ IdleOtherVars
    /\ \E sh \in EmitShapes, base \in {1, 2}, a \in {1, 2, 4, 5} :
           \E M \in SUBSET GridPixels(sh) :
               /\ before_segmentation = MakeGrid(sh, base, base, {}, a)
               /\ after_segmentation = MakeGrid(sh, base, base, M, a)
               /\ confidence_scores \in ScoreMaps(sh)
    /\ pixel_to_hectare_ratio \in HectareRatios
    /\ analysis = NotRun

NextEmit == AnalyzeMulticlassChanges

SpecEmit == InitEmit /\ [][NextEmit]_vars

\* The detections of the analysis made for the changed component R
DetectionsOf(R) ==
    {i \in DOMAIN analysis.change_detections :
        /\ analysis.change_detections[i].bbox = get_bounding_box(R)
        /\ analysis.change_detections[i].area_hectares
               = Cardinality(R) * pixel_to_hectare_ratio}

\* C30: every changed connected component of at least 0.1 hectares is
\* emitted as a detection whatever its classification; a region classified
\* as no change is emitted with that type, and every emitted region counts
\* in total_detections and total_changed_area_hectares.
C30_EveryRegionEmitted ==
    analysis.status = "ok" =>
        /\ \A R \in Accepted :
               /\ Cardinality(DetectionsOf(R)) = 1
               /\ \A i \in DetectionsOf(R) :
                      analysis.change_detections[i].change_type
                          = classify_region_change(before_segmentation,
                                                   after_segmentation, R)
        /\ Len(analysis.change_detections) = Cardinality(Accepted)
        /\ analysis.statistics.total_detections = Cardinality(Accepted)
        /\ analysis.statistics.total_changed_area_hectares
               = Cardinality(UNION Accepted) * pixel_to_hectare_ratio

\* C30 witness: a region of urban turned forest is emitted with type no
\* change and is the one detection counted
C30_Witness ==
    /\ analysis.status = "ok"
    /\ \E i \in DOMAIN analysis.change_detections :
           LET b == analysis.change_detections[i].bbox
           IN  /\ analysis.change_detections[i].change_type = "no_change"
               /\ before_segmentation[b[2] + 1][b[1] + 1] = 2
               /\ after_segmentation[b[2] + 1][b[1] + 1] = 1
    /\ analysis.statistics.total_detections = 1
    /\ analysis.statistics.total_changed_area_hectares > 0

====
